---- MODULE Spec2Model ----
(***************************************************************************)
(* The page archiver's download coordinator (_Downloader in                *)
(* qutebrowser/browser/pageloader/loader.py) together with the writer it   *)
(* feeds and the download manager it asks for the assets.                  *)
(*                                                                         *)
(* Every handler of the coordinator (run, finished, error) is one action:  *)
(* the event loop is single-threaded, so a handler runs to completion      *)
(* before the next signal is dispatched.  What the environment decides     *)
(* (the page's references, the answer of each download, whether a handle   *)
(* is already done when its signals are connected, which signal a handle   *)
(* emits and when) is drawn from small sets.                               *)
(***************************************************************************)
EXTENDS Integers, Sequences, FiniteSets, TLC

(***************************************************************************)
(* URLs.  A reference is an absolute URL or the empty (relative) reference *)
(* which QUrl.resolved() resolves to the base itself.                      *)
(***************************************************************************)
PageUrl == "http://h/page"
DataUrl == "data:x"
Assets == {"http://h/a", "http://h/b", "http://h/c"}
Urls == Assets \cup {PageUrl, DataUrl}
EmptyRef == ""
Refs == Urls \cup {EmptyRef}

\* The page holds at most MaxRefs references (elements, style elements and
\* style attributes together); a stylesheet holds at most MaxImports.
MaxRefs == 2
MaxImports == 1

\* The folder writer is also handed references of a stylesheet: RelRef is
\* the relative reference f, StyleUrl a stylesheet on another host.
RelRef == "f"
StyleUrl == "http://g/s.css"

scheme(url) ==
    CASE url = DataUrl -> "data"
      [] url \in {EmptyRef, RelRef} -> ""
      [] OTHER -> "http"

resolved(base, ref) ==
    CASE ref = EmptyRef -> base
      [] ref = RelRef -> IF base = StyleUrl THEN "http://g/f" ELSE "http://h/f"
      [] OTHER -> ref

\* What the HTTP answer of a download may carry as Content-Type, and the
\* content type and bytes of the error placeholder.
Mimes == {"Text/CSS", "image/png"}
None == "None"
EmptyBytes == "b''"

lower(mime) == IF mime = "Text/CSS" THEN "text/css" ELSE mime

SeqsUpTo(S, n) == UNION {[1..k -> S] : k \in 0..n}

Range(seq) == {seq[k] : k \in DOMAIN seq}

\* The sequences of a sequence, one after the other.
RECURSIVE Flat(_)
Flat(seqs) ==
    IF seqs = << >> THEN << >>
    ELSE IF Len(seqs) = 1 THEN seqs[1]
    ELSE Flat(SubSeq(seqs, 1, Len(seqs) \div 2))
         \o Flat(SubSeq(seqs, Len(seqs) \div 2 + 1, Len(seqs)))

\* Python evaluates an argument once, before the call: x is evaluated and
\* F applied to its value.
once(x, F(_)) == CHOOSE r \in {F(v) : v \in {x}} : TRUE

\* The rendered documents: the URLs of the link/script/img elements, those
\* found in style elements and those found in style attributes.
Pages ==
    {p \in [elements : SeqsUpTo(Refs, MaxRefs),
            styles : SeqsUpTo(Refs, MaxRefs),
            inline : SeqsUpTo(Refs, MaxRefs)] :
        Len(p.elements) + Len(p.styles) + Len(p.inline) <= MaxRefs}

\* What a completed download holds: its Content-Type and, for a stylesheet,
\* the references the CSS scanner finds in its text.
Responses ==
    {r \in [mime : Mimes, urls : SeqsUpTo(Refs, MaxImports)] :
        lower(r.mime) # "text/css" => r.urls = << >>}

(***************************************************************************)
(* File names (htmldir.py).  A file name is a sequence of characters.      *)
(***************************************************************************)
Digits == <<"0", "1", "2", "3", "4", "5", "6", "7", "8", "9">>

isdigit(c) == c \in Range(Digits)

\* int(): the number a string of decimal digits denotes.
RECURSIVE int(_)
int(digits) ==
    IF digits = << >> THEN 0
    ELSE int(SubSeq(digits, 1, Len(digits) - 1)) * 10
         + (CHOOSE d \in 0..9 : Digits[d + 1] = digits[Len(digits)])

\* '{}'.format(num)
RECURSIVE str(_)
str(num) ==
    IF num < 10 THEN <<Digits[num + 1]>>
    ELSE str(num \div 10) \o <<Digits[(num % 10) + 1]>>

\* p.rfind(c), counted from 1; 0: not found.
rfind(p, c) ==
    LET found == {k \in 1..Len(p) : p[k] = c}
    IN IF found = {} THEN 0 ELSE CHOOSE k \in found : \A j \in found : j <= k

\* os.path.splitext on a name without a directory: the extension starts at
\* the last dot, unless only dots come before it.
splitext(p) ==
    LET dotIndex == rfind(p, ".")
    IN IF dotIndex > 0 /\ \E k \in 1..(dotIndex - 1) : p[k] # "."
       THEN <<SubSeq(p, 1, dotIndex - 1), SubSeq(p, dotIndex, Len(p))>>
       ELSE <<p, << >> >>

\* re.search(r'-(\d+)$', name): where the match starts, 0 without a match.
search(name) ==
    LET hits == {i \in 1..(Len(name) - 1) :
                    /\ name[i] = "-"
                    /\ \A k \in (i + 1)..Len(name) : isdigit(name[k])}
    IN IF hits = {} THEN 0 ELSE CHOOSE i \in hits : \A j \in hits : i <= j

\* match.start(1) is where the digits start: name[match.start(1):] is the
\* digits themselves; ext holds its dot.
\* _inc_filename that returns the filename it is given.
_inc_filename_same(filename) == filename

_inc_filename(filename) ==
    LET name == splitext(filename)[1]
        ext == splitext(filename)[2]
        match == search(name)
        group1 == SubSeq(name, match + 1, Len(name))
        num == IF match # 0 THEN int(group1) + 1 ELSE 1
        name2 == IF match # 0 THEN group1 ELSE name
    IN IF ext # << >>
       THEN name2 \o <<"-">> \o str(num) \o <<".">> \o ext
       ELSE name2 \o <<"-">> \o str(num)

\* os.path.join(folder, filename)
join(folder, filename) ==
    IF folder = << >> THEN filename ELSE folder \o <<"/">> \o filename

\* The destination of the archive, and the folder of its assets.
dest == <<"d", ".", "h">>

_get_asset_folder_path(path) ==
    LET filename == splitext(path)[1]
        ext == splitext(path)[2]
    IN IF ext = << >>
       THEN filename \o <<" ", "-", " ", "a", "s", "s", "e", "t", "s">>
       ELSE filename

\* QUrl.fileName(): what follows the last slash of the path.
fileName(url) ==
    CASE url = "http://h/a" -> <<"a">>
      [] url = "http://h/b" -> <<"b">>
      [] url = "http://h/c" -> <<"c">>
      [] url = "http://h/f" -> <<"f">>
      [] url = "http://g/f" -> <<"f">>
      [] url = "http://h/f-1" -> <<"f", "-", "1">>
      [] url = PageUrl -> <<"p", "a", "g", "e">>
      [] url = StyleUrl -> <<"s", ".", "c", "s", "s">>
      [] OTHER -> << >>

(***************************************************************************)
(* The folder writer (HTMLDirWriter).  A method gives the writer as the    *)
(* call leaves it, what the call returns and the exception it raises.      *)
(* What rewrite_url returns is the URL it was given (url) or a relative    *)
(* path (path).                                                            *)
(***************************************************************************)
NoResult == [url |-> "", path |-> << >>]

E_BASE64 == "base64"

E_QUOPRI == "quoted-printable"

NoFiles ==
    [l \in {} |-> [content |-> EmptyBytes, content_type |-> None,
                   transfer_encoding |-> E_BASE64]]

NoMapping == [u \in {} |-> << >>]

NoDisk == [p \in {} |-> EmptyBytes]

Returns(w, result) == [writer |-> w, result |-> result, exc |-> "none"]

Raises(w, exc) == [writer |-> w, result |-> NoResult, exc |-> exc]

\* What a writer of either class holds.  class: the writer's class; id: the
\* number of the writer among those the coordinator built; files: the
\* MHTML writer's _files; disk: the files below the destination's folder;
\* links: the references root_content holds, each with the URL it stood
\* for; writes: one entry per write() call, with what the coordinator's
\* pending set and the writer's root content were at the call.
PageWriter ==
    [class |-> "PageWriter", id |-> 1, root_content |-> EmptyBytes,
     links |-> {}, files |-> NoFiles, writes |-> << >>,
     content_location |-> "", content_type |-> None,
     dest |-> << >>, folder_path |-> << >>,
     file_mapping |-> NoMapping, disk |-> NoDisk]

HTMLDirWriter(root_content, content_location, path) ==
    [PageWriter EXCEPT !.class = "HTMLDirWriter",
                       !.root_content = root_content,
                       !.content_location = content_location,
                       !.dest = path,
                       !.folder_path = _get_asset_folder_path(path)]

folder_name(w) == w.folder_path

\* while new_filename in self.file_mapping.values(): ...
RECURSIVE new_name(_, _)
new_name(values, new_filename) ==
    IF new_filename \in values
    THEN new_name(values, _inc_filename(new_filename))
    ELSE new_filename

\* The end of rewrite_url: the URL gets the filename and the caller a
\* path, through the folder for the page and bare for a stylesheet.
_map(w, url, new_filename, base) ==
    Returns([w EXCEPT !.file_mapping =
                [u \in DOMAIN @ \cup {url} |-> IF u = url THEN new_filename ELSE @[u]]],
            [url |-> "",
             path |-> IF base = None \/ base = w.content_location
                      THEN join(folder_name(w), new_filename)
                      ELSE new_filename])

\* rewrite_url for a resolved URL, taking the URL's file name as it is.
_rewrite_resolved_noloop(w, url, base) ==
    IF url \in DOMAIN w.file_mapping
    THEN Returns(w, [url |-> "", path |-> w.file_mapping[url]])
    ELSE _map(w, url,
              IF fileName(url) = << >> THEN <<"a", "s", "s", "e", "t">>
              ELSE fileName(url),
              base)

\* rewrite_url from the look into file_mapping on; url is resolved.
\* rewrite_url without the test for a URL that is mapped already.
_rewrite_resolved_remap(w, url, base) ==
    _map(w, url,
         new_name(Range(w.file_mapping),
                  IF fileName(url) = << >> THEN <<"a", "s", "s", "e", "t">>
                  ELSE fileName(url)),
         base)

_rewrite_resolved(w, url, base) ==
    IF url \in DOMAIN w.file_mapping
    THEN Returns(w, [url |-> "", path |-> w.file_mapping[url]])
    ELSE _map(w, url,
              new_name(Range(w.file_mapping),
                       IF fileName(url) = << >> THEN <<"a", "s", "s", "e", "t">>
                       ELSE fileName(url)),
              base)

\* rewrite_url that treats a data URL like any other.
HTMLDirWriter_rewrite_url_data(w, url, base) ==
    _rewrite_resolved(w,
                      IF base # None THEN resolved(base, url)
                      ELSE resolved(w.content_location, url),
                      base)

HTMLDirWriter_rewrite_url(w, url, base) ==
    IF scheme(url) = "data" THEN Returns(w, [url |-> url, path |-> << >>])
    ELSE _rewrite_resolved(w,
                           IF base # None THEN resolved(base, url)
                           ELSE resolved(w.content_location, url),
                           base)

HTMLDirWriter_add_file(w, location, content) ==
    IF location \notin DOMAIN w.file_mapping
    THEN Raises(w, "KeyError")
    ELSE LET filepath == join(w.folder_path, w.file_mapping[location])
         IN Returns([w EXCEPT !.disk =
                        [p \in DOMAIN @ \cup {filepath} |->
                            IF p = filepath THEN content ELSE @[p]]],
                    NoResult)

HTMLDirWriter_remove_file(w, location) == Raises(w, "NotImplementedError")

HTMLDirWriter_write(w) ==
    Returns([w EXCEPT !.disk =
                [p \in DOMAIN @ \cup {w.dest} |->
                    IF p = w.dest THEN w.root_content ELSE @[p]]],
            NoResult)

VARIABLES
    format,             \* the Format whose value is _Downloader.writer_factory
    _used,              \* _Downloader._used
    _finished,          \* _Downloader._finished
    loaded_urls,        \* _Downloader.loaded_urls
    pending_downloads,  \* _Downloader.pending_downloads: set of <<url, item>>
    writer,             \* _Downloader.writer (id 0: None)
    downloads,          \* the download manager's items: item -> its record
    failed,             \* the error path's log: [url, item, signal]
    info,               \* the texts message.info was called with
    lastOp              \* the handler that ran last and how it ended

vars == <<format, _used, _finished, loaded_urls, pending_downloads, writer,
          downloads, failed, info, lastOp>>

Downloader == <<format, _used, _finished, loaded_urls, pending_downloads, downloads, failed,
               info>>

\* The writer the coordinator holds before run(): none.
NoWriter == [PageWriter EXCEPT !.id = 0]

\* The coordinator's state as one value, as the handlers below pass it on.
\* exc: the exception the handler raised; dup: a fetch_url call of the
\* handler met a URL that was requested before; signal: what invoked it.
Self ==
    [format |-> format, _used |-> _used, _finished |-> _finished, loaded_urls |-> loaded_urls,
     pending_downloads |-> pending_downloads, writer |-> writer,
     downloads |-> downloads, failed |-> failed, info |-> info,
     exc |-> "none", dup |-> FALSE, signal |-> ""]

(***************************************************************************)
(* The MHTML writer (MHTMLWriter).  What write() puts into the file is the *)
(* sequence of the message's parts.                                        *)
(***************************************************************************)
RootType == "text/html"

\* Header values that hold a character outside ASCII: they stand for
\* 'http://brötli.com' and 'text/pläin'.
NonAsciiUrl == "http://br(o umlaut)tli.com"

NonAsciiType == "text/pl(a umlaut)in"

\* A Content-Type that names the media type text/css with a parameter.
CssWithCharset == "text/css; charset=utf-8"

\* content_type.startswith('text/')
startswith_text(content_type) ==
    content_type \in {RootType, "text/css", NonAsciiType, CssWithCharset}

MHTMLWriter(root_content, content_location, content_type, path) ==
    [PageWriter EXCEPT !.class = "MHTMLWriter",
                       !.root_content = root_content,
                       !.content_location = content_location,
                       !.content_type = content_type,
                       !.dest = path]

MHTMLWriter_rewrite_url(w, url, base) == Returns(w, [url |-> url, path |-> << >>])

\* add_file that keeps the file a location has.
MHTMLWriter_add_file_keep(w, location, content, content_type) ==
    IF location \in DOMAIN w.files THEN Returns(w, NoResult)
    ELSE Returns([w EXCEPT !.files =
                     [l \in DOMAIN @ \cup {location} |->
                         IF l = location
                         THEN [content |-> content, content_type |-> content_type,
                               transfer_encoding |->
                                   IF content_type # None /\ startswith_text(content_type)
                                   THEN E_QUOPRI ELSE E_BASE64]
                         ELSE @[l]]],
                 NoResult)

MHTMLWriter_add_file(w, location, content, content_type) ==
    LET transfer_encoding ==
            IF content_type # None /\ startswith_text(content_type)
            THEN E_QUOPRI ELSE E_BASE64
    IN Returns([w EXCEPT !.files =
                   [l \in DOMAIN @ \cup {location} |->
                       IF l = location
                       THEN [content |-> content, content_type |-> content_type,
                             transfer_encoding |-> transfer_encoding]
                       ELSE @[l]]],
               NoResult)

\* del self._files[location]
MHTMLWriter_remove_file(w, location) ==
    IF location \notin DOMAIN w.files
    THEN Raises(w, "KeyError")
    ELSE Returns([w EXCEPT !.files = [l \in DOMAIN @ \ {location} |-> @[l]]],
                 NoResult)

\* The locations in the order in which Python compares their strings.
ByteOrder ==
    <<"http://g/f", "http://g/s.css", "http://h/", "http://h/a", "http://h/b",
      "http://h/c", "http://h/f", "http://h/f-1", "http://h/page">>

index(location) == CHOOSE k \in DOMAIN ByteOrder : ByteOrder[k] = location

\* sorted(reverse=True)
RECURSIVE sorted_reverse(_)
sorted_reverse(locations) ==
    once(locations, LAMBDA rest :
        IF rest = {} THEN << >>
        ELSE once(CHOOSE l \in rest : \A m \in rest : index(m) <= index(l),
                  LAMBDA last : <<last>> \o sorted_reverse(rest \ {last})))

\* sorted(self._files.items()), by the location: the keys are all different.
RECURSIVE sorted(_)
sorted(locations) ==
    once(locations, LAMBDA rest :
        IF rest = {} THEN << >>
        ELSE once(CHOOSE l \in rest : \A m \in rest : index(l) <= index(m),
                  LAMBDA first : <<first>> \o sorted(rest \ {first})))

\* One part of the message: its headers (Content_Type None: no such header)
\* and its payload.
_create_file(content_location, f) ==
    [Content_Location |-> content_location,
     Content_Type |-> IF f.content_type \in {None, ""} THEN None ELSE f.content_type,
     Content_Transfer_Encoding |-> f.transfer_encoding,
     payload |-> f.content]

\* _create_root_file that takes the encoding as add_file does.
_create_root_file_bytype(w) ==
    _create_file(w.content_location,
                 [content |-> w.root_content, content_type |-> w.content_type,
                  transfer_encoding |->
                      IF w.content_type # None /\ startswith_text(w.content_type)
                      THEN E_QUOPRI ELSE E_BASE64])

_create_root_file(w) ==
    _create_file(w.content_location,
                 [content |-> w.root_content, content_type |-> w.content_type,
                  transfer_encoding |-> E_QUOPRI])

\* The message write() builds.
message(w) ==
    once(sorted(DOMAIN w.files), LAMBDA locations :
        <<_create_root_file(w)>>
        \o [k \in 1..Len(locations) |->
               _create_file(locations[k], w.files[locations[k]])])

\* value.encode('ascii') succeeds.
isascii(value) == value \notin {NonAsciiUrl, NonAsciiType}

\* The values of the Content-Location and Content-Type headers of the parts.
header_values(w) ==
    ({w.content_location, w.content_type} \cup DOMAIN w.files
        \cup {w.files[l].content_type : l \in DOMAIN w.files}) \ {None, ""}

\* write() that encodes the headers as UTF-8: no value is refused.
MHTMLWriter_write_utf8(w) ==
    Returns([w EXCEPT !.disk =
                [p \in DOMAIN @ \cup {w.dest} |->
                    IF p = w.dest THEN message(w) ELSE @[p]]],
            NoResult)

\* open(self.dest, 'wb') empties dest; flatten() builds the parts in a
\* buffer and encodes their headers as ASCII before it emits anything.
MHTMLWriter_write(w) ==
    IF \A value \in header_values(w) : isascii(value)
    THEN Returns([w EXCEPT !.disk =
                     [p \in DOMAIN @ \cup {w.dest} |->
                         IF p = w.dest THEN message(w) ELSE @[p]]],
                 NoResult)
    ELSE Raises([w EXCEPT !.disk =
                    [p \in DOMAIN @ \cup {w.dest} |->
                        IF p = w.dest THEN << >> ELSE @[p]]],
                "UnicodeEncodeError")

(***************************************************************************)
(* The writer the coordinator holds: an MHTMLWriter or an HTMLDirWriter.   *)
(***************************************************************************)
writer_factory(s) ==
    [s EXCEPT !.writer =
        [(IF s.format = "htmldir"
          THEN HTMLDirWriter(EmptyBytes, PageUrl, dest)
          ELSE MHTMLWriter(EmptyBytes, PageUrl, RootType, dest))
         EXCEPT !.id = s.writer.id + 1]]

rewrite_url(w, url, base) ==
    IF w.class = "HTMLDirWriter"
    THEN HTMLDirWriter_rewrite_url(w, url, base)
    ELSE MHTMLWriter_rewrite_url(w, url, base)

add_file(self, location, content, content_type) ==
    once(self, LAMBDA s :
        once(IF s.writer.class = "HTMLDirWriter"
             THEN HTMLDirWriter_add_file(s.writer, location, content)
             ELSE MHTMLWriter_add_file(s.writer, location, content, content_type),
             LAMBDA out : [s EXCEPT !.writer = out.writer, !.exc = out.exc]))

write(self) ==
    once(self, LAMBDA s :
        LET out == IF s.writer.class = "HTMLDirWriter"
                   THEN HTMLDirWriter_write(s.writer)
                   ELSE MHTMLWriter_write(s.writer)
        IN [s EXCEPT !.writer =
               [out.writer EXCEPT !.writes =
                   Append(@, [pending |-> s.pending_downloads,
                              root_content |-> s.writer.root_content])],
                     !.exc = out.exc])

(***************************************************************************)
(* The download manager: get() returns a new item, told apart from every   *)
(* other item by the URL and the number of the request for that URL.       *)
(***************************************************************************)
requested(s, url) == {i \in DOMAIN s.downloads : i[1] = url}

get(s, url) == <<url, Cardinality(requested(s, url)) + 1>>

(***************************************************************************)
(* The coordinator.                                                        *)
(***************************************************************************)
\* finish_file that forgets to set the flag.
\* message.info called whether write() returned or raised.
saved_always(self) ==
    once(self, LAMBDA s :
        [s EXCEPT !.info = Append(@, <<"Page saved as ", s.writer.dest>>)])

\* message.info('current', "Page saved as {}".format(self.dest)), reached
\* when write() returned.
saved(self) ==
    once(self, LAMBDA s :
        IF s.exc # "none" THEN s
        ELSE [s EXCEPT !.info = Append(@, <<"Page saved as ", s.writer.dest>>)])

finish_file_noflag(self) ==
    once(self, LAMBDA s : IF s._finished THEN s ELSE saved(write(s)))

\* finish_file that sets _finished once write() has returned.
finish_file_flag_last(self) ==
    once(self, LAMBDA s :
        IF s._finished
        THEN s
        ELSE once(write(s), LAMBDA s1 :
                 IF s1.exc # "none" THEN s1
                 ELSE saved([s1 EXCEPT !._finished = TRUE])))

finish_file(self) ==
    once(self, LAMBDA s :
        IF s._finished
        THEN s
        ELSE saved(write([s EXCEPT !._finished = TRUE])))

\* The cancelled signal connected to the wrong handler.
connect_cancelled_finished(signal) ==
    CASE signal = "finished" -> "finished"
      [] signal = "error" -> "error"
      [] signal = "cancelled" -> "finished"

\* The three connections fetch_url makes on a new item: signal -> handler.
connect(signal) ==
    CASE signal = "finished" -> "finished"
      [] signal = "error" -> "error"
      [] signal = "cancelled" -> "error"

\* fetch_url that forgets to record the URL in loaded_urls.
(***************************************************************************)
(* The buffer of a download (_NoCloseBytesIO): whether io.BytesIO.close    *)
(* has freed it.  The download manager calls close() when it likes.        *)
(***************************************************************************)
_NoCloseBytesIO == [closed |-> FALSE]

\* io.BytesIO.close in place of pass.
close_inherited(fileobj) == [fileobj EXCEPT !.closed = TRUE]

close(fileobj) == fileobj

actual_close(fileobj) == [fileobj EXCEPT !.closed = TRUE]

ClosedFile == "ValueError: I/O operation on closed file."

\* item.fileobj.getvalue(), seek, write and truncate: the handler goes on
\* as s when the buffer is open and ends with the error when it is not.
getvalue(s, item) ==
    IF s.downloads[item].fileobj.closed THEN [s EXCEPT !.exc = ClosedFile] ELSE s

\* item.fileobj.actual_close()
item_actual_close(s, item) ==
    [s EXCEPT !.downloads[item].fileobj = actual_close(@)]

fetch_url_noadd(self, url, instant) ==
    once(self, LAMBDA s :
        IF scheme(url) = "data" THEN s
        ELSE IF url \in s.loaded_urls THEN s
        ELSE LET item == get(s, url)
                 rec == [done |-> url \in instant,
                         dom_pass |-> s.writer.root_content # "document",
                         loaded |-> url \in s.loaded_urls,
                         fileobj |-> _NoCloseBytesIO,
                         finished |-> connect("finished"),
                         error |-> connect("error"),
                         cancelled |-> connect("cancelled")]
             IN [s EXCEPT !.downloads =
                            [i \in DOMAIN @ \cup {item} |->
                                IF i = item THEN rec ELSE @[i]],
                          !.pending_downloads = @ \cup {<<url, item>>}])

\* fetch_url without the test of loaded_urls.
fetch_url_unchecked(self, url, instant) ==
    once(self, LAMBDA s :
        IF scheme(url) = "data" THEN s
        ELSE once([s EXCEPT !.loaded_urls = @ \cup {url}], LAMBDA s1 :
                 LET item == get(s1, url)
                     rec == [done |-> url \in instant,
                             dom_pass |-> s1.writer.root_content # "document",
                             loaded |-> url \in s1.loaded_urls,
                             fileobj |-> _NoCloseBytesIO,
                             finished |-> connect("finished"),
                             error |-> connect("error"),
                             cancelled |-> connect("cancelled")]
                 IN [s1 EXCEPT !.downloads =
                                 [i \in DOMAIN @ \cup {item} |->
                                     IF i = item THEN rec ELSE @[i]],
                               !.pending_downloads = @ \cup {<<url, item>>}]))

\* instant: the URLs whose download is already done when get() returns.
\* The item's record keeps item.done as it is then, whether run() had still
\* to store the document (the fetch comes from the DOM pass), whether the
\* URL was in loaded_urls when get() was called, and the three connections.
fetch_url(self, url, instant) ==
    once(self, LAMBDA s :
        IF scheme(url) = "data" THEN s
        ELSE IF url \in s.loaded_urls
             THEN [s EXCEPT !.dup = @ \/ requested(s, url) # {}]
        ELSE once([s EXCEPT !.loaded_urls = @ \cup {url}], LAMBDA s1 :
                 LET item == get(s1, url)
                     rec == [done |-> url \in instant,
                             dom_pass |-> s1.writer.root_content # "document",
                             loaded |-> url \in s1.loaded_urls,
                             fileobj |-> _NoCloseBytesIO,
                             finished |-> connect("finished"),
                             error |-> connect("error"),
                             cancelled |-> connect("cancelled")]
                 IN [s1 EXCEPT !.downloads =
                                 [i \in DOMAIN @ \cup {item} |->
                                     IF i = item THEN rec ELSE @[i]],
                               !.pending_downloads = @ \cup {<<url, item>>}]))

\* for ref in refs: self.fetch_url(base.resolved(QUrl(ref)))
RECURSIVE fetch_all(_, _, _, _)
fetch_all(s, base, refs, instant) ==
    IF refs = << >> THEN s
    ELSE fetch_all(fetch_url(s, resolved(base, Head(refs)), instant),
                   base, Tail(refs), instant)

\* The reference is left as it is and the writer is not asked.
rewrite_skip(self, url, base, doc) == self

\* new_url = self.writer.rewrite_url(url, base); doc: it is the document
\* that takes new_url in place of the reference (a stylesheet otherwise).
rewrite(self, url, base, doc) ==
    once(self, LAMBDA s :
        once(rewrite_url(s.writer, url, base), LAMBDA out :
            [s EXCEPT !.writer =
                IF doc
                THEN [out.writer EXCEPT !.links = @ \cup
                         {[url |-> resolved(IF base = None THEN PageUrl ELSE base, url),
                           new_url |-> out.result]}]
                ELSE out.writer]))

\* _get_css_imports(text, callback=functools.partial(rewrite_url, base=base))
RECURSIVE rewrite_all(_, _, _, _)
rewrite_all(s, base, refs, doc) ==
    IF refs = << >> THEN s
    ELSE rewrite_all(rewrite(s, Head(refs), base, doc), base, Tail(refs), doc)

\* for element in elements: rewrite the attribute, fetch the URL.
RECURSIVE fetch_elements(_, _, _)
fetch_elements(s, refs, instant) ==
    IF refs = << >> THEN s
    ELSE LET absolute_url == resolved(PageUrl, Head(refs))
         IN fetch_elements(fetch_url(rewrite(s, absolute_url, None, TRUE),
                                     absolute_url, instant),
                           Tail(refs), instant)

\* The references of a stylesheet: rewritten in its text, then fetched.
css_imports(s, base, refs, instant, doc) ==
    fetch_all(rewrite_all(s, base, refs, doc), base, refs, instant)

\* finished() that finishes the file without looking at the pending set.
finished_eager(s, url, item, resp, instant) ==
    IF <<url, item>> \notin s.pending_downloads
    THEN [s EXCEPT !.exc = "KeyError"]
    ELSE LET s1 == [s EXCEPT !.pending_downloads = @ \ {<<url, item>>}]
             css == lower(resp.mime) = "text/css"
             s2 == IF css THEN css_imports(s1, url, resp.urls, instant, FALSE) ELSE s1
             content == IF css THEN "rewritten css" ELSE "bytes"
         IN once(add_file(s2, url, content, resp.mime), LAMBDA s3 :
                IF s3.exc # "none" THEN s3 ELSE finish_file(s3))

\* finished() that does not hand the file to the writer.
finished_noadd(s, url, item, resp, instant) ==
    IF <<url, item>> \notin s.pending_downloads
    THEN [s EXCEPT !.exc = "KeyError"]
    ELSE LET s1 == [s EXCEPT !.pending_downloads = @ \ {<<url, item>>}]
             css == lower(resp.mime) = "text/css"
         IN once(IF css THEN css_imports(s1, url, resp.urls, instant, FALSE) ELSE s1,
                 LAMBDA s2 : IF s2.pending_downloads # {} THEN s2 ELSE finish_file(s2))

finished(s, url, item, resp, instant) ==
    IF <<url, item>> \notin s.pending_downloads
    THEN [s EXCEPT !.exc = "KeyError"]
    ELSE once(getvalue([s EXCEPT !.pending_downloads = @ \ {<<url, item>>}], item),
              LAMBDA s1 :
         IF s1.exc # "none" THEN s1
         ELSE LET css == lower(resp.mime) = "text/css"
                  s2 == IF css THEN css_imports(s1, url, resp.urls, instant, FALSE) ELSE s1
                  content == IF css THEN "rewritten css" ELSE "bytes"
              IN once(add_file(s2, url, content, resp.mime), LAMBDA s3 :
                     IF s3.exc # "none" THEN s3
                     ELSE once(item_actual_close(s3, item), LAMBDA s4 :
                              IF s4.pending_downloads # {}
                              THEN s4 ELSE finish_file(s4))))

\* error() that never finishes the file.
error_nofinish(s, url, item) ==
    IF <<url, item>> \notin s.pending_downloads
    THEN s
    ELSE add_file([s EXCEPT !.pending_downloads = @ \ {<<url, item>>},
                            !.failed = @ \cup {[url |-> url, item |-> item,
                                                signal |-> s.signal]}],
                  url, EmptyBytes, None)

\* error() with discard() in place of remove(): a missing pair is not told
\* apart.
error_discard(s, url, item) ==
    LET s1 == [s EXCEPT !.pending_downloads = @ \ {<<url, item>>},
                        !.failed = @ \cup {[url |-> url, item |-> item,
                                            signal |-> s.signal]}]
    IN once(add_file(s1, url, EmptyBytes, None), LAMBDA s2 :
           IF s2.exc # "none" \/ s2.pending_downloads # {}
           THEN s2 ELSE finish_file(s2))

error(s, url, item) ==
    IF <<url, item>> \notin s.pending_downloads
    THEN s
    ELSE LET s1 == [s EXCEPT !.pending_downloads = @ \ {<<url, item>>},
                             !.failed = @ \cup {[url |-> url, item |-> item,
                                                 signal |-> s.signal]},
                             !.downloads[item].fileobj = actual_close(@)]
         IN once(add_file(s1, url, EmptyBytes, None), LAMBDA s2 :
                IF s2.exc # "none" \/ s2.pending_downloads # {}
                THEN s2 ELSE finish_file(s2))

\* What the environment decides when finished() runs for a pending pair:
\* the download's answer and, for each URL the answer refers to and that
\* is not loaded yet, whether its download is done at once.
Fresh(s, base, refs) ==
    {u \in {resolved(base, r) : r \in Range(refs)} :
        scheme(u) # "data" /\ u \notin s.loaded_urls}

NoResponse == [mime |-> "", urls |-> << >>]

Answers(s, url, item) ==
    IF <<url, item>> \notin s.pending_downloads
    THEN {<<NoResponse, {}>>}
    ELSE UNION {{<<resp, instant>> : instant \in SUBSET Fresh(s, url, resp.urls)}
                : resp \in Responses}

\* The pending downloads whose handle reports done.
zombies(s) == {p \in s.pending_downloads : s.downloads[p[2]].done}

\* collect_zombies walks a set: every order of the walk, and every answer
\* the done downloads may hold, gives one possible result.
RECURSIVE collect(_, _)
collect(s, items) ==
    IF items = {} THEN {s}
    ELSE UNION {UNION {collect(t, items \ {p})
                       : t \in {finished(s, p[1], p[2], a[1], a[2])
                                   : a \in Answers(s, p[1], p[2])}}
                : p \in items}

collect_zombies(s) == collect(s, zombies(s))

\* run() without the check of _used.
run_reusable(s, page, instant) ==
    LET s1 == writer_factory([s EXCEPT !._used = TRUE])
        s2 == fetch_elements(s1, page.elements, instant)
        s3 == css_imports(s2, PageUrl, page.styles, instant, TRUE)
        s4 == css_imports(s3, PageUrl, page.inline, instant, TRUE)
        s5 == [s4 EXCEPT !.writer.root_content = "document"]
    IN {IF s6.pending_downloads = {} /\ ~s6._finished
        THEN finish_file(s6) ELSE s6 : s6 \in collect_zombies(s5)}

\* The possible results of run() on the page.
run(s, page, instant) ==
    IF s._used
    THEN {[s EXCEPT !.exc = "ValueError"]}
    ELSE LET s1 == writer_factory([s EXCEPT !._used = TRUE])
             s2 == fetch_elements(s1, page.elements, instant)
             s3 == css_imports(s2, PageUrl, page.styles, instant, TRUE)
             s4 == css_imports(s3, PageUrl, page.inline, instant, TRUE)
             s5 == [s4 EXCEPT !.writer.root_content = "document"]
         IN {IF s6.pending_downloads = {} /\ ~s6._finished
             THEN finish_file(s6) ELSE s6 : s6 \in collect_zombies(s5)}

(***************************************************************************)
(* The state machine.                                                      *)
(***************************************************************************)
NoItem == <<"", 0>>

NoOp == [op |-> "init", signal |-> "", item |-> NoItem, exc |-> "none", dup |-> FALSE]

NoPage == [elements |-> << >>, styles |-> << >>, inline |-> << >>]

\* A coordinator built for the format f.
New(f) ==
    /\ format = f
    /\ _used = FALSE
    /\ _finished = FALSE
    /\ loaded_urls = {PageUrl}
    /\ pending_downloads = {}
    /\ writer = NoWriter
    /\ downloads = << >>
    /\ failed = {}
    /\ info = << >>
    /\ lastOp = NoOp

Init == New("mhtml")

\* The handler returned (or raised) leaving the coordinator as s.
Becomes(s, op) ==
    /\ format' = s.format
    /\ _used' = s._used
    /\ _finished' = s._finished
    /\ loaded_urls' = s.loaded_urls
    /\ pending_downloads' = s.pending_downloads
    /\ writer' = s.writer
    /\ downloads' = s.downloads
    /\ failed' = s.failed
    /\ info' = s.info
    /\ lastOp' = [op EXCEPT !.exc = s.exc, !.dup = s.dup]

\* run() reads the page only when the coordinator was not used before.
Run ==
    \E page \in (IF _used THEN {NoPage} ELSE Pages) :
        \E instant \in SUBSET Fresh(Self, PageUrl, page.elements \o page.styles \o page.inline) :
            \E s \in run(Self, page, instant) :
                Becomes(s, [NoOp EXCEPT !.op = "run"])

\* The event loop dispatches a signal of an item to the handler connected
\* to it.
Dispatch(signal, item) ==
    LET url == item[1]
        handler == downloads[item][signal]
        op == [NoOp EXCEPT !.op = handler, !.signal = signal, !.item = item]
    IN \E me \in {[Self EXCEPT !.signal = signal]} :
           \/ /\ handler = "finished"
              /\ \E a \in Answers(me, url, item) :
                     \E s \in {finished(me, url, item, a[1], a[2])} : Becomes(s, op)
           \/ /\ handler = "error"
              /\ \E s \in {error(me, url, item)} : Becomes(s, op)

EmitFinished == \E item \in DOMAIN downloads : Dispatch("finished", item)

EmitError == \E item \in DOMAIN downloads : Dispatch("error", item)

EmitCancelled == \E item \in DOMAIN downloads : Dispatch("cancelled", item)

Next == Run \/ EmitFinished \/ EmitError \/ EmitCancelled

Spec == Init /\ [][Next]_vars

\* Every download in the pending set delivers one of its signals in the end.
Settle ==
    \E p \in pending_downloads :
        \E signal \in {"finished", "error", "cancelled"} : Dispatch(signal, p[2])

LiveSpec == Init /\ [][Next]_vars /\ WF_vars(Settle)

\* The coordinator saving the page as a file and a folder of assets.
FolderSpec == New("htmldir") /\ [][Next]_vars

(***************************************************************************)
(* The coordinator when a server may answer with a Content-Type outside    *)
(* ASCII: finished() decodes the header as ISO-8859-1 and hands it to      *)
(* add_file as it is.                                                      *)
(***************************************************************************)
EmitFinishedNonAscii ==
    \E item \in DOMAIN downloads :
        /\ downloads[item]["finished"] = "finished"
        /\ <<item[1], item>> \in pending_downloads
        /\ \E me \in {[Self EXCEPT !.signal = "finished"]} :
               \E s \in {finished(me, item[1], item,
                                  [mime |-> NonAsciiType, urls |-> << >>], {})} :
                   Becomes(s, [NoOp EXCEPT !.op = "finished", !.signal = "finished",
                                           !.item = item])

SavedInit == \E f \in {"mhtml", "htmldir"} : New(f)

SavedNext == Next \/ EmitFinishedNonAscii

SavedSpec == SavedInit /\ [][SavedNext]_vars

(***************************************************************************)
(* The coordinator when the servers name a stylesheet's type in the ways   *)
(* they do: text/css in any case, or text/css followed by a parameter.     *)
(* lastOp keeps the Content-Type and the references the stylesheet holds.  *)
(***************************************************************************)
StyleTypes == {"text/css", "Text/CSS", CssWithCharset}

EmitFinishedStylesheet ==
    \E item \in DOMAIN downloads :
        /\ downloads[item]["finished"] = "finished"
        /\ <<item[1], item>> \in pending_downloads
        /\ \E me \in {[Self EXCEPT !.signal = "finished"]} :
             \E mime \in StyleTypes, urls \in SeqsUpTo(Refs, MaxImports) :
               \E instant \in SUBSET Fresh(me, item[1], urls) :
                 \E s \in {finished(me, item[1], item,
                                    [mime |-> mime, urls |-> urls], instant)} :
                     Becomes(s, [op |-> "finished", signal |-> "finished", item |-> item,
                                 exc |-> "none", dup |-> FALSE,
                                 mime |-> mime, urls |-> urls])

StyleNext == Next \/ EmitFinishedStylesheet

StyleSpec == SavedInit /\ [][StyleNext]_vars

(* of any download it was asked for, at any time and as often as it likes. *)
(***************************************************************************)
ManagerClose ==
    \E item \in DOMAIN downloads :
        /\ downloads' = [downloads EXCEPT ![item].fileobj = close(@)]
        /\ lastOp' = [NoOp EXCEPT !.op = "close", !.item = item]
        /\ UNCHANGED <<format, _used, _finished, loaded_urls, pending_downloads,
                       writer, failed, info>>

BufferNext == Next \/ ManagerClose

BufferSpec == SavedInit /\ [][BufferNext]_vars

(***************************************************************************)
(* start_download_checked: the command that saves the page.  Before a      *)
(* coordinator exists, writer stands for no writer and its disk is the     *)
(* file system the command finds; lastOp holds the dest the command was    *)
(* given.  The question is answered once at most (usertypes.Question).     *)
(***************************************************************************)
\* dest written with a tilde: os.path.expanduser turns it into dest.
tilde == <<"~", "/">> \o dest

expanduser(path) == IF path = tilde THEN dest ELSE path

\* os.path.isfile(path): the path is taken as it is written.
isfile(disk, path) == path \in DOMAIN disk

\* What a file holds that an earlier download left.
Old == <<"old">>

\* start_download_checked that never asks.
start_download_unchecked(disk, path) == "start_download"

\* What start_download_checked does at once: it starts the download or
\* asks the question.
start_download_checked(disk, path) ==
    IF ~isfile(disk, path) THEN "start_download" ELSE "ask"

\* start_download: a coordinator is built and run; the files its writer
\* does not write are left as they are.
start_download(path, signal) ==
    \E page \in Pages :
        \E me \in {[Self EXCEPT !.loaded_urls = {PageUrl}]} :
            \E instant \in SUBSET Fresh(me, PageUrl, page.elements \o page.styles \o page.inline) :
                \E s \in run(me, page, instant) :
                    Becomes([s EXCEPT !.writer.dest = expanduser(path),
                                      !.writer.disk =
                                [p \in DOMAIN @ \cup DOMAIN writer.disk |->
                                    IF p \in DOMAIN @ THEN @[p] ELSE writer.disk[p]]],
                            [NoOp EXCEPT !.op = "run", !.signal = signal])

CheckedInit ==
    /\ \E f \in {"mhtml", "htmldir"} : format = f
    /\ _used = FALSE
    /\ _finished = FALSE
    /\ loaded_urls = {}
    /\ pending_downloads = {}
    /\ downloads = << >>
    /\ failed = {}
    /\ info = << >>
    /\ \E paths \in SUBSET {dest, tilde} :
           writer = [NoWriter EXCEPT !.disk = [p \in paths |-> Old]]
    /\ \E path \in {dest, tilde} : lastOp = [op |-> "init", dest |-> path]

StartChecked ==
    /\ lastOp.op = "init"
    /\ \/ /\ start_download_checked(writer.disk, lastOp.dest) = "start_download"
          /\ start_download(lastOp.dest, "")
       \/ /\ start_download_checked(writer.disk, lastOp.dest) = "ask"
          /\ lastOp' = [lastOp EXCEPT !.op = "ask"]
          /\ UNCHANGED <<writer, Downloader>>

AnsweredYes ==
    /\ lastOp.op = "ask"
    /\ start_download(lastOp.dest, "answered_yes")

AnsweredNo ==
    /\ lastOp.op = "ask"
    /\ lastOp' = [lastOp EXCEPT !.op = "answered_no"]
    /\ UNCHANGED <<writer, Downloader>>

CheckedNext ==
    StartChecked \/ AnsweredYes \/ AnsweredNo
        \/ EmitFinished \/ EmitError \/ EmitCancelled

CheckedSpec == CheckedInit /\ [][CheckedNext]_vars

(***************************************************************************)
(* The folder writer on its own: a writer built for the page and called    *)
(* in any order, as the unit tests of htmldir.py do.  There is no          *)
(* coordinator; lastOp is the last call, its argument and how it ended.    *)
(***************************************************************************)
NoDownloader ==
    /\ format = None
    /\ _used = FALSE
    /\ _finished = FALSE
    /\ loaded_urls = {}
    /\ pending_downloads = {}
    /\ downloads = << >>
    /\ failed = {}
    /\ info = << >>

\* The references rewrite_url is called with, the bases they are found in
\* and the locations add_file and remove_file are called with.
DirRefs == {"http://h/f", "http://h/f-1", "http://h/", RelRef, EmptyRef, DataUrl}

Bases == {None, PageUrl, StyleUrl}

DirUrls == {"http://h/f", "http://g/f", "http://h/f-1", "http://h/", PageUrl, StyleUrl}

Called(op, url, out) ==
    /\ writer' = out.writer
    /\ lastOp' = [op |-> op, url |-> url, exc |-> out.exc]
    /\ UNCHANGED Downloader

DirInit ==
    /\ NoDownloader
    /\ writer = HTMLDirWriter("document", PageUrl, dest)
    /\ lastOp = [op |-> "init", url |-> "", exc |-> "none"]

DirRewrite ==
    \E url \in DirRefs : \E base \in Bases :
        Called("rewrite_url", url, HTMLDirWriter_rewrite_url(writer, url, base))

DirAdd ==
    \E location \in DirUrls :
        Called("add_file", location, HTMLDirWriter_add_file(writer, location, "bytes"))

DirRemove ==
    \E location \in DirUrls :
        Called("remove_file", location, HTMLDirWriter_remove_file(writer, location))

DirWrite == Called("write", "", HTMLDirWriter_write(writer))

DirNext == DirRewrite \/ DirAdd \/ DirRemove \/ DirWrite

DirSpec == DirInit /\ [][DirNext]_vars

(***************************************************************************)
(* The MHTML writer on its own: a writer built for the page and called in  *)
(* any order, as the unit tests of mhtml.py do.  lastOp holds, for every   *)
(* location, the last call made for it (last), and the locations in the    *)
(* order in which the calls that stand were made first (order).            *)
(***************************************************************************)
\* What add_file is called with: content and content type.
MhtFiles ==
    {[content |-> "bytes", content_type |-> "image/png"],
     [content |-> "css", content_type |-> "text/css"],
     [content |-> EmptyBytes, content_type |-> None],
     [content |-> "bytes", content_type |-> ""]}

RootTypes == {RootType, "image/png"}

NoCall == [op |-> "none", content |-> EmptyBytes, content_type |-> None]

Without(order, location) == SelectSeq(order, LAMBDA l : l # location)

MhtInit ==
    /\ NoDownloader
    /\ \E content_type \in RootTypes :
           writer = MHTMLWriter("document", PageUrl, content_type, dest)
    /\ lastOp = [last |-> [l \in Assets |-> NoCall], order |-> << >>]

MhtAdd ==
    \E location \in Assets : \E f \in MhtFiles :
        /\ writer' = MHTMLWriter_add_file(writer, location, f.content, f.content_type).writer
        /\ lastOp' = [last |-> [lastOp.last EXCEPT ![location] =
                                   [op |-> "add_file", content |-> f.content,
                                    content_type |-> f.content_type]],
                      order |-> IF lastOp.last[location].op = "add_file"
                                THEN lastOp.order
                                ELSE Append(lastOp.order, location)]
        /\ UNCHANGED Downloader

MhtRemove ==
    \E location \in Assets :
        /\ writer' = MHTMLWriter_remove_file(writer, location).writer
        /\ lastOp' = [last |-> [lastOp.last EXCEPT ![location] =
                                   [NoCall EXCEPT !.op = "remove_file"]],
                      order |-> Without(lastOp.order, location)]
        /\ UNCHANGED Downloader

MhtWrite ==
    /\ writer' = MHTMLWriter_write(writer).writer
    /\ UNCHANGED <<lastOp, Downloader>>

MhtNext == MhtAdd \/ MhtRemove \/ MhtWrite

MhtSpec == MhtInit /\ [][MhtNext]_vars

\* The MHTML writer built with header values in and outside ASCII, as
\* test_refuses_non_ascii_header_value does.
HdrInit ==
    /\ NoDownloader
    /\ \E content_location \in {PageUrl, NonAsciiUrl} :
           \E content_type \in {RootType, NonAsciiType} :
               writer = MHTMLWriter(EmptyBytes, content_location, content_type, dest)
    /\ lastOp = [last |-> [l \in Assets |-> NoCall], order |-> << >>]

HdrSpec == HdrInit /\ [][MhtNext]_vars

(***************************************************************************)
(* _inc_filename on its own, called once with any file name of at most     *)
(* MaxLen characters: lastOp holds the argument and what was returned.     *)
(***************************************************************************)
MaxLen == 6

Chars == {"f", "-", ".", "1", "9"}

Filenames == SeqsUpTo(Chars, MaxLen)

IncInit ==
    /\ NoDownloader
    /\ writer = NoWriter
    /\ \E filename \in Filenames :
           lastOp = [op |-> "init", filename |-> filename, result |-> << >>]

IncFilename ==
    /\ lastOp.op = "init"
    /\ lastOp' = [lastOp EXCEPT !.op = "_inc_filename",
                                !.result = _inc_filename(lastOp.filename)]
    /\ UNCHANGED <<writer, Downloader>>

IncSpec == IncInit /\ [][IncFilename]_vars

(***************************************************************************)
(* The transfer encoders of misc/mhtml.py.  A byte string is a sequence of *)
(* bytes; an encoded text is the sequence of its lines, which b"\r\n"      *)
(* joins: no line holds a CR or LF, the encoders escape both.              *)
(***************************************************************************)
maxlen == 76

\* The bytes of the data: a letter, the equals sign and a byte above ASCII.
Bytes == {"a", "=", "0xFF"}

\* ord("!") <= byte <= ord("<") or ord(">") <= byte <= ord("~") or
\* byte in whitespace
isliteral(byte) == byte = "a"

\* "{:02X}".format(byte)
hex(byte) ==
    CASE byte = "=" -> <<"3", "D">>
      [] byte = "0xFF" -> <<"F", "F">>
      [] OTHER -> <<"6", "1">>

\* What the byte adds to current_line.
quoted(byte) == IF isliteral(byte) THEN <<byte>> ELSE <<"=">> \o hex(byte)

\* The split that cuts the line at maxlen - 1 and leaves it there.
split_plain(current_line) ==
    <<SubSeq(current_line, 1, maxlen - 1), SubSeq(current_line, maxlen, Len(current_line))>>

\* split of a line of at least maxlen characters: cut before the column of
\* the soft break, the escape that the cut would break moved to split[1].
split(current_line) ==
    LET split0 == SubSeq(current_line, 1, maxlen - 1)
        split1 == SubSeq(current_line, maxlen, Len(current_line))
        quoted_pos == rfind(split0, "=") - 1
    IN IF quoted_pos + 2 >= maxlen - 1
       THEN <<SubSeq(split0, 1, quoted_pos),
              SubSeq(split0, quoted_pos + 1, Len(split0)) \o split1>>
       ELSE <<split0, split1>>

\* One turn of the loop: the byte is added to current_line, and the line
\* is split when it reached maxlen.
_rn_quopri_byte(output, current_line, byte) ==
    once(current_line \o quoted(byte), LAMBDA line :
        IF Len(line) >= maxlen
        THEN once(split(line), LAMBDA s :
                 [output |-> Append(output, Append(s[1], "=")), current_line |-> s[2]])
        ELSE [output |-> output, current_line |-> line])

\* for byte in data: the turns for the first half of the data, then those
\* for the second half.
RECURSIVE _rn_quopri_loop(_, _)
_rn_quopri_loop(at, data) ==
    IF data = << >> THEN at
    ELSE IF Len(data) = 1 THEN _rn_quopri_byte(at.output, at.current_line, data[1])
    ELSE once(_rn_quopri_loop(at, SubSeq(data, 1, Len(data) \div 2)), LAMBDA half :
             _rn_quopri_loop(half, SubSeq(data, Len(data) \div 2 + 1, Len(data))))

_rn_quopri(data) ==
    once(_rn_quopri_loop([output |-> << >>, current_line |-> << >>], data),
         LAMBDA end : Append(end.output, end.current_line))

\* _rn_quopri called once with a run of letters followed by any bytes.
MaxTail == 4

Prefixes == {0, 71, 72, 73, 74, 75, 76, 147, 148, 149}

Letters(n) == [k \in 1..n |-> "a"]

QpInit ==
    /\ NoDownloader
    /\ writer = NoWriter
    /\ \E n \in Prefixes : \E tail \in SeqsUpTo(Bytes, MaxTail) :
           lastOp = [op |-> "init", data |-> Letters(n) \o tail, result |-> << >>]

QpEncode ==
    /\ lastOp.op = "init"
    /\ lastOp' = [lastOp EXCEPT !.op = "_rn_quopri", !.result = _rn_quopri(lastOp.data)]
    /\ UNCHANGED <<writer, Downloader>>

QpSpec == QpInit /\ [][QpEncode]_vars

(***************************************************************************)
(* The lines of an MHTML file (misc/mhtml.py: write_to, _create_file and   *)
(* the generator under MHTMLPolicy).  Text the writer always emits in the  *)
(* same way is a run of as many dots as it has characters.                 *)
(***************************************************************************)
Text(n) == [k \in 1..n |-> "."]

\* base64.b64encode(data): four characters for every three bytes begun.
b64encode(data) == Text(4 * ((Len(data) + 2) \div 3))

\* linesep.join(result): the chunks are the lines; no chunk, one empty line.
_chunked_base64(data) ==
    LET encoded == b64encode(data)
        result == [i \in 1..((Len(encoded) + maxlen - 1) \div maxlen) |->
                      SubSeq(encoded, (i - 1) * maxlen + 1,
                             IF i * maxlen < Len(encoded) THEN i * maxlen ELSE Len(encoded))]
    IN IF result = << >> THEN << << >> >> ELSE result

\* encoding_func(f.content)
encoding_func(transfer_encoding, content) ==
    IF transfer_encoding = E_QUOPRI THEN _rn_quopri(content) ELSE _chunked_base64(content)

\* "quoted-printable", "base64"
encoding_name(transfer_encoding) ==
    IF transfer_encoding = E_QUOPRI THEN Text(16) ELSE Text(6)

\* max_line_length=0: a header is emitted on one line, as name, ": " and
\* value, however long it is.
fold(name, value) == name \o value

\* "---=_qute-" + str(uuid.uuid4())
BOUNDARY(uuid) == Text(10) \o uuid

\* The lines of one part: Content-Location, MIME-Version, Content-Type,
\* Content-Transfer-Encoding, an empty line and the payload.
part_lines(f) ==
    <<fold(Text(18), f.content_location), Text(17),
      fold(Text(14), f.content_type),
      fold(Text(27), encoding_name(f.transfer_encoding)),
      << >> >>
    \o encoding_func(f.transfer_encoding, f.content)

\* The root file of the tests: no content, "text/plain",
\* "http://example.com", quoted-printable.
root_file ==
    [content |-> << >>, content_type |-> Text(10), content_location |-> Text(18),
     transfer_encoding |-> E_QUOPRI]

\* The lines of the file: the Content-Type of the whole with the boundary in
\* quotes, MIME-Version, an empty line, every part after a boundary line,
\* and the closing boundary line.
write_to(uuid, files) ==
    <<fold(Text(14), Text(29) \o BOUNDARY(uuid) \o Text(1)), Text(17), << >> >>
    \o Flat([k \in 1..Len(files) |->
                <<Text(2) \o BOUNDARY(uuid)>> \o part_lines(files[k])])
    \o <<Text(2) \o BOUNDARY(uuid) \o Text(2), << >> >>

\* str(uuid.uuid4()) has 36 characters; the tests patch it to "UUID".
Uuids == {Text(36), Text(4)}

\* Locations: "http://h/" and a path of so many letters.
PathLens == {0, 1, 49, 50}

LineInit ==
    /\ NoDownloader
    /\ writer = NoWriter
    /\ \E uuid \in Uuids : \E n \in PathLens : \E m \in Prefixes :
        \E tail \in SeqsUpTo(Bytes, MaxTail) :
        \E transfer_encoding \in {E_QUOPRI, E_BASE64} :
           lastOp = [op |-> "init", uuid |-> uuid,
                     f |-> [content |-> Letters(m) \o tail,
                            content_type |-> Text(9),
                            content_location |-> Text(9) \o Letters(n),
                            transfer_encoding |-> transfer_encoding],
                     result |-> << >>]

LineWrite ==
    /\ lastOp.op = "init"
    /\ lastOp' = [lastOp EXCEPT !.op = "write_to",
                                !.result = write_to(lastOp.uuid, <<root_file, lastOp.f>>)]
    /\ UNCHANGED <<writer, Downloader>>

LineSpec == LineInit /\ [][LineWrite]_vars

(***************************************************************************)
(* The CSS scanner (_get_css_imports_regex).  A CSS text is a sequence of  *)
(* symbols: "@import " is @import with the white space after it, "url("    *)
(* the function's name with its bracket, and one symbol for a closing      *)
(* bracket, for each quote and for any other character.                    *)
(***************************************************************************)
\* A pattern: what it starts with, the quote around the url group (None:
\* the url is not quoted) and whether a bracket closes it.
_CSS_URL_PATTERNS ==
    <<[open |-> "@import ", quote |-> "'", close |-> FALSE],
      [open |-> "@import ", quote |-> "\"", close |-> FALSE],
      [open |-> "url(", quote |-> None, close |-> TRUE],
      [open |-> "url(", quote |-> "\"", close |-> TRUE],
      [open |-> "url(", quote |-> "'", close |-> TRUE]>>

NoMatch == [start |-> 0, url |-> <<0, 0>>, stop |-> 0]

\* The first place at or after i where data holds c; 0 when there is none.
find(data, c, i) ==
    LET found == {k \in i..Len(data) : data[k] = c}
    IN IF found = {} THEN 0 ELSE CHOOSE k \in found : \A j \in found : k <= j

\* pattern.match(data, i): the match that starts at i, with the places of
\* its first and last symbol and of those of the url group.  [^'"][^)]*
\* takes one symbol that is no quote and runs up to the next bracket;
\* [^']+ and [^"]+ take one symbol at least and run up to the next quote.
pattern_match(pattern, data, i) ==
    IF i + 1 > Len(data) \/ data[i] # pattern.open THEN NoMatch
    ELSE IF pattern.quote = None
    THEN IF data[i + 1] \in {"'", "\""} \/ find(data, ")", i + 2) = 0 THEN NoMatch
         ELSE [start |-> i, url |-> <<i + 1, find(data, ")", i + 2) - 1>>,
               stop |-> find(data, ")", i + 2)]
    ELSE once(find(data, pattern.quote, i + 2), LAMBDA j :
             IF data[i + 1] # pattern.quote \/ j = 0 \/ j = i + 2 THEN NoMatch
             ELSE IF ~pattern.close THEN [start |-> i, url |-> <<i + 2, j - 1>>, stop |-> j]
             ELSE IF j + 1 <= Len(data) /\ data[j + 1] = ")"
                  THEN [start |-> i, url |-> <<i + 2, j - 1>>, stop |-> j + 1]
                  ELSE NoMatch)

\* The rewrite callback of the tests, which puts eggs for spam: here x for
\* a, and y for x.
callback(url) ==
    [k \in 1..Len(url) |->
        CASE url[k] = "a" -> "x" [] url[k] = "x" -> "y" [] OTHER -> url[k]]

\* What cb_wrapper returns for the match: whole, with new_url in the place
\* of the url group when there is a callback.  The callback is that of the
\* tests or MHTMLWriter.rewrite_url, which returns the url it is given.
cb_wrapper(data, m, cb) ==
    IF cb # None
    THEN SubSeq(data, m.start, m.url[1] - 1)
         \o (IF cb = "callback" THEN callback(SubSeq(data, m.url[1], m.url[2]))
             ELSE SubSeq(data, m.url[1], m.url[2]))
         \o SubSeq(data, m.url[2] + 1, m.stop)
    ELSE SubSeq(data, m.start, m.stop)

\* pattern.sub(cb_wrapper, data) from the place i on: the matches are taken
\* from left to right, none inside another.  With every url appended to
\* urls goes the place where it was found (start) and the pattern.
RECURSIVE sub(_, _, _, _)
sub(pattern, data, i, cb) ==
    IF i > Len(data) THEN [data |-> << >>, urls |-> << >>]
    ELSE once(pattern_match(pattern, data, i), LAMBDA m :
             IF m = NoMatch
             THEN once(sub(pattern, data, i + 1, cb), LAMBDA rest :
                      [data |-> <<data[i]>> \o rest.data, urls |-> rest.urls])
             ELSE once(sub(pattern, data, m.stop + 1, cb), LAMBDA rest :
                      [data |-> cb_wrapper(data, m, cb) \o rest.data,
                       urls |-> <<[url |-> SubSeq(data, m.url[1], m.url[2]),
                                   start |-> m.url[1],
                                   pattern |-> pattern]>> \o rest.urls]))

\* for pattern in patterns: data = pattern.sub(cb_wrapper, data)
RECURSIVE sub_all(_, _, _)
sub_all(patterns, at, cb) ==
    IF patterns = << >> THEN at
    ELSE once(sub(Head(patterns), at.data, 1, cb), LAMBDA next :
             sub_all(Tail(patterns),
                     [data |-> next.data, urls |-> at.urls \o next.urls], cb))

_get_css_imports_regex(data, cb) ==
    sub_all(_CSS_URL_PATTERNS, [data |-> data, urls |-> << >>], cb)

\* _get_css_imports_regex called once, with and without a callback, on a
\* text put together from at most MaxPieces pieces: the five forms around
\* the url a, and the single symbols.
MaxPieces == 4

Pieces ==
    {<<"@import ", "'", "a", "'">>, <<"@import ", "\"", "a", "\"">>,
     <<"url(", "a", ")">>, <<"url(", "\"", "a", "\"", ")">>,
     <<"url(", "'", "a", "'", ")">>,
     <<"@import ">>, <<"url(">>, <<")">>, <<"'">>, <<"\"">>, <<"a">>}

CssInit ==
    /\ NoDownloader
    /\ writer = NoWriter
    /\ \E pieces \in SeqsUpTo(Pieces, MaxPieces) : \E cb \in {None, "callback"} :
           lastOp = [op |-> "init", data |-> Flat(pieces), callback |-> cb,
                     result |-> [data |-> << >>, urls |-> << >>]]

CssScan ==
    /\ lastOp.op = "init"
    /\ lastOp' = [lastOp EXCEPT !.op = "_get_css_imports_regex",
                                !.result = _get_css_imports_regex(lastOp.data, lastOp.callback)]
    /\ UNCHANGED <<writer, Downloader>>

CssSpec == CssInit /\ [][CssScan]_vars

(***************************************************************************)
(* The loop of rewrite_url that allocates a filename, one turn a step:     *)
(*     while new_filename in self.file_mapping.values():                   *)
(*         new_filename = _inc_filename(new_filename)                      *)
(* lastOp holds the allocated filenames, the candidate the loop was        *)
(* entered with and new_filename.  The allocated filenames are taken from  *)
(* the names the loop goes through from a few first candidates, so that    *)
(* it has to turn several times.                                           *)
(***************************************************************************)
MaxChain == 3

Candidates == {<<"f">>, <<"f", "-", "9">>, <<"f", ".", "f">>}

\* _inc_filename applied n times.
RECURSIVE inc_times(_, _)
inc_times(filename, n) ==
    IF n = 0 THEN filename ELSE _inc_filename(inc_times(filename, n - 1))

Chain == {inc_times(c, n) : c \in Candidates, n \in 0..(MaxChain - 1)}

LoopInit ==
    /\ NoDownloader
    /\ writer = NoWriter
    /\ \E values \in SUBSET Chain : \E candidate \in Candidates :
           lastOp = [op |-> "while", values |-> values, candidate |-> candidate,
                     new_filename |-> candidate]

LoopTurn ==
    /\ lastOp.op = "while"
    /\ lastOp.new_filename \in lastOp.values
    /\ lastOp' = [lastOp EXCEPT !.new_filename = _inc_filename(@)]
    /\ UNCHANGED <<writer, Downloader>>

LoopExit ==
    /\ lastOp.op = "while"
    /\ lastOp.new_filename \notin lastOp.values
    /\ lastOp' = [lastOp EXCEPT !.op = "allocated"]
    /\ UNCHANGED <<writer, Downloader>>

LoopNext == LoopTurn \/ LoopExit

LoopSpec == LoopInit /\ [][LoopNext]_vars /\ WF_vars(LoopNext)

(***************************************************************************)
(* The bytes finished() registers for a stylesheet.  A byte is a symbol of *)
(* the scanner or one of the two bytes of the UTF-8 form of a-umlaut; each *)
(* of the two alone is invalid UTF-8.                                      *)
(***************************************************************************)
Umlaut == "a-umlaut"

\* bytes.decode('utf-8', 'ignore'): an invalid byte is left out.
RECURSIVE decode_ignore(_)
decode_ignore(bytes) ==
    IF bytes = << >> THEN << >>
    ELSE IF Len(bytes) >= 2 /\ bytes[1] = "0xC3" /\ bytes[2] = "0xA4"
         THEN <<Umlaut>> \o decode_ignore(SubSeq(bytes, 3, Len(bytes)))
    ELSE IF bytes[1] \in {"0xC3", "0xA4"} THEN decode_ignore(Tail(bytes))
    ELSE <<bytes[1]>> \o decode_ignore(Tail(bytes))

\* text.encode('utf-8')
RECURSIVE encode(_)
encode(text) ==
    IF text = << >> THEN << >>
    ELSE (IF text[1] = Umlaut THEN <<"0xC3", "0xA4">> ELSE <<text[1]>>)
         \o encode(Tail(text))

\* finished() of misc/mhtml.py: the buffer is read and left alone.
misc_finished_content(bytes) == bytes

\* finished() of pageloader/loader.py for an MHTML archive: the rewritten
\* text is written over the buffer, and the buffer is what add_file gets.
finished_content(bytes) ==
    encode(_get_css_imports_regex(decode_ignore(bytes), "rewrite_url").data)

StylePieces ==
    {<<"@import ", "'", "a", "'">>, <<"url(", "a", ")">>, <<"a">>,
     <<"0xC3", "0xA4">>, <<"0xC3">>, <<"0xA4">>}

ContentInit ==
    /\ NoDownloader
    /\ writer = NoWriter
    /\ \E pieces \in SeqsUpTo(StylePieces, MaxPieces) :
           \E module \in {"pageloader/loader.py", "misc/mhtml.py"} :
               lastOp = [op |-> "init", module |-> module, bytes |-> Flat(pieces),
                         content |-> << >>]

ContentFinished ==
    /\ lastOp.op = "init"
    /\ lastOp' = [lastOp EXCEPT !.op = "finished",
                                !.content = IF lastOp.module = "misc/mhtml.py"
                                            THEN misc_finished_content(lastOp.bytes)
                                            ELSE finished_content(lastOp.bytes)]
    /\ UNCHANGED <<writer, Downloader>>

ContentSpec == ContentInit /\ [][ContentFinished]_vars

(***************************************************************************)
(* Properties of the coordinator.                                          *)
(***************************************************************************)
Coordinator == <<_used, _finished, loaded_urls, pending_downloads, writer,
                 downloads, failed, info>>

Written == Len(writer.writes)

\* C1: whatever run(), finished, error and cancelled events occur,
\* writer.write() is called at most once.
C1_WriteAtMostOnce == Written <= 1

\* run() collected zombies, whose finished() found the pending set empty and
\* wrote the file, and then met the empty pending set again at its end.
C1_Witness ==
    /\ lastOp.op = "run"
    /\ lastOp.exc = "none"
    /\ downloads # << >>
    /\ \A item \in DOMAIN downloads : downloads[item].done
    /\ pending_downloads = {}
    /\ Written = 1

\* C4: every URL is requested from the download manager at most once, and
\* it was in loaded_urls when it was requested.
C4_RequestedOnce ==
    \A item \in DOMAIN downloads :
        /\ item[2] = 1
        /\ downloads[item].loaded
        /\ item[1] \in loaded_urls

\* A handler met again a URL that had been requested before.
C4_Witness ==
    /\ lastOp.dup
    /\ downloads # << >>

\* C5: the first run() marks the coordinator used; every later run() raises
\* ValueError and changes nothing: no fetch, no new writer, the same
\* pending set, loaded set and finished flag.
C5_SingleUse ==
    [][lastOp'.op = "run" =>
        IF _used
        THEN lastOp'.exc = "ValueError" /\ UNCHANGED Coordinator
        ELSE lastOp'.exc = "none" /\ _used' /\ writer'.id = 1]_vars

\* A second run() was refused while downloads were in flight.
C5_Witness ==
    /\ lastOp.op = "run"
    /\ lastOp.exc = "ValueError"
    /\ pending_downloads # {}
    /\ writer.id = 1

\* C6: write() is called only with the pending set empty and the rewritten
\* document stored in root_content, and it is called by the first handler
\* that leaves the pending set empty after the DOM pass: after run() an
\* empty pending set means the file is written (a page without a fetchable
\* asset is written by run() itself).
C6_WriteWhenDrained ==
    /\ \A k \in DOMAIN writer.writes :
           /\ writer.writes[k].pending = {}
           /\ writer.writes[k].root_content = "document"
    /\ (_used /\ pending_downloads = {}) => (_finished /\ Written = 1)

\* The last of several downloads completed and its handler wrote the file.
C6_Witness ==
    /\ lastOp.op = "finished"
    /\ lastOp.exc = "none"
    /\ Cardinality(DOMAIN downloads) >= 2
    /\ \A item \in DOMAIN downloads : ~downloads[item].done
    /\ Written = 1

FailedUrls == {f.url : f \in failed}

\* C7 as stated: once the file is finished, every URL of the loaded set is
\* in the writer's files or was reported failed.
C7_LoadedRegisteredOrFailed ==
    _finished =>
        \A url \in loaded_urls : url \in DOMAIN writer.files \/ url \in FailedUrls

\* C7 amended: once the file is finished, every URL of the loaded set other
\* than the page's own URL is in the writer's files or was reported failed.
C7_FetchedRegisteredOrFailed ==
    _finished =>
        \A url \in loaded_urls \ {PageUrl} :
            url \in DOMAIN writer.files \/ url \in FailedUrls

\* The file is finished with one download completed and another failed.
C7_Witness ==
    /\ _finished
    /\ FailedUrls # {}
    /\ \E url \in loaded_urls \ {PageUrl} : url \notin FailedUrls

\* The pair the last handler was called with.
Pair(op) == <<op.item[1], op.item>>

Placeholder ==
    [content |-> EmptyBytes, content_type |-> None, transfer_encoding |-> E_BASE64]

\* C8: error() on a pending pair raises nothing, takes the pair out of the
\* pending set, registers the URL with empty bytes and no content type, and
\* finishes the file when it leaves the pending set empty.
C8_ErrorNeverAborts ==
    [][(lastOp'.op = "error" /\ Pair(lastOp') \in pending_downloads) =>
        /\ lastOp'.exc = "none"
        /\ pending_downloads' = pending_downloads \ {Pair(lastOp')}
        /\ lastOp'.item[1] \in DOMAIN writer'.files
        /\ writer'.files[lastOp'.item[1]] = Placeholder
        /\ pending_downloads' = {} => (_finished' /\ Len(writer'.writes) = 1)]_vars

\* Every download failed and the file was written.
C8_Witness ==
    /\ lastOp.op = "error"
    /\ Cardinality(DOMAIN downloads) >= 2
    /\ \A item \in DOMAIN downloads : \E f \in failed : f.item = item
    /\ _finished
    /\ Written = 1

\* The files after add_file(url, b'').
WithPlaceholder(files, url) ==
    [l \in DOMAIN files \cup {url} |-> IF l = url THEN Placeholder ELSE files[l]]

\* C9: the error signal and the cancelled signal of a pending pair both
\* give the same pending set, the same files and the same finished flag;
\* and the one that comes second for a handle changes nothing.
C9_CancelledAsError ==
    [][lastOp'.signal \in {"error", "cancelled"} =>
        IF Pair(lastOp') \in pending_downloads
        THEN /\ pending_downloads' = pending_downloads \ {Pair(lastOp')}
             /\ writer'.files = WithPlaceholder(writer.files, lastOp'.item[1])
             /\ _finished' = (_finished \/ pending_downloads' = {})
        ELSE (\E f \in failed : f.item = lastOp'.item) => UNCHANGED Coordinator]_vars

\* The cancelled signal came after the error signal of the same handle.
C9_Witness ==
    /\ lastOp.signal = "cancelled"
    /\ \E f \in failed : f.item = lastOp.item /\ f.signal = "error"

\* C10: error() for a pair that is not pending raises nothing and leaves
\* the pending set, the loaded set, the writer (its files, no write()) and
\* the finished flag as they are.
C10_LateErrorIgnored ==
    [][(lastOp'.op = "error" /\ Pair(lastOp') \notin pending_downloads) =>
        lastOp'.exc = "none" /\ UNCHANGED Coordinator]_vars

\* The error signal of a download that collect_zombies() had completed: the
\* file keeps the downloaded bytes.
C10_Witness ==
    /\ lastOp.op = "error"
    /\ lastOp.exc = "none"
    /\ downloads[lastOp.item].done
    /\ lastOp.item[1] \in DOMAIN writer.files
    /\ writer.files[lastOp.item[1]].content # EmptyBytes
    /\ \A f \in failed : f.item # lastOp.item

IsPending(url) == \E p \in pending_downloads : p[1] = url

\* C2: after run(), when every pending download delivers a finished, error
\* or cancelled callback in the end, every URL leaves the pending set and
\* the coordinator ends finished with write() called.
C2_EventuallyWritten ==
    /\ _used ~> (pending_downloads = {} /\ _finished /\ Written = 1)
    /\ \A url \in Assets : IsPending(url) ~> ~IsPending(url)

\* The file was written after a stylesheet brought in a further download.
C2_Witness ==
    /\ _finished
    /\ Written = 1
    /\ pending_downloads = {}
    /\ lastOp.op \in {"finished", "error"}
    /\ \E item \in DOMAIN downloads : ~downloads[item].dom_pass /\ ~downloads[item].done

\* No download is under way any more: the handle of every pair still
\* pending was done when its signals were connected.
Quiet == _used /\ \A p \in pending_downloads : downloads[p[2]].done

\* C3: a download whose handle was done when its signals were connected is
\* completed all the same: once no other download is under way it has left
\* the pending set and its file is with the writer, whether it was fetched
\* in the DOM pass or from a stylesheet's finished() handler.
C3_ZombieCompleted ==
    Quiet =>
        \A item \in DOMAIN downloads :
            downloads[item].done =>
                /\ <<item[1], item>> \notin pending_downloads
                /\ item[1] \in DOMAIN writer.files

(***************************************************************************)
(* Properties of the folder writer.                                        *)
(***************************************************************************)
\* C11: after any sequence of rewrite_url calls, with any URLs, bases and
\* repetitions, no two distinct URLs of file_mapping have the same filename.
C11_MappingInjective ==
    \A u1 \in DOMAIN writer.file_mapping : \A u2 \in DOMAIN writer.file_mapping :
        u1 # u2 => writer.file_mapping[u1] # writer.file_mapping[u2]

\* Three URLs asked for the names f, f and f-1: the one that came last had
\* to be renamed twice.
C11_Witness ==
    /\ {"http://h/f", "http://g/f", "http://h/f-1"} \subseteq DOMAIN writer.file_mapping
    /\ \E u \in DOMAIN writer.file_mapping :
           /\ writer.file_mapping[u] # fileName(u)
           /\ writer.file_mapping[u] # _inc_filename(fileName(u))

\* C12: in any state of the mapping, two calls of rewrite_url with the same
\* url and base, one after the other, return equal results.
C12_RewriteIdempotent ==
    \A url \in DirRefs : \A base \in Bases :
        LET first == HTMLDirWriter_rewrite_url(writer, url, base)
            second == HTMLDirWriter_rewrite_url(first.writer, url, base)
        IN second.result = first.result

\* The URL a call of rewrite_url maps: the reference resolved against the
\* base, or against the page when there is no base.
Absolute(url, base) ==
    resolved(IF base = None THEN writer.content_location ELSE base, url)

\* C13: for a URL that is not a data URL, every call of rewrite_url with no
\* base or with the page as base returns <folder_name>/<filename>, and
\* every call with another base returns <filename>, the name allocated to
\* the URL, whether the URL was mapped before the call or not.
C13_RewriteForm ==
    \A url \in DirRefs : \A base \in Bases :
        scheme(url) # "data" =>
            LET out == HTMLDirWriter_rewrite_url(writer, url, base)
                filename == out.writer.file_mapping[Absolute(url, base)]
            IN out.result.path =
                   IF base \in {None, writer.content_location}
                   THEN join(folder_name(writer), filename)
                   ELSE filename

\* Where add_file puts the file of a mapped location, and whether it did.
FilePath(location) == join(writer.folder_path, writer.file_mapping[location])

Added(location) ==
    /\ location \in DOMAIN writer.file_mapping
    /\ FilePath(location) \in DOMAIN writer.disk

\* C15: remove_file for a location that add_file has stored raises nothing
\* and deletes the asset's file: the destination keeps the root file and
\* the other assets and holds no file for the removed location.
C15_RemoveDeletes ==
    [][(lastOp'.op = "remove_file" /\ Added(lastOp'.url)) =>
        /\ lastOp'.exc = "none"
        /\ DOMAIN writer'.disk = DOMAIN writer.disk \ {FilePath(lastOp'.url)}]_vars

\* The rule as it is stated: the name without its extension, with the
\* digits after a last hyphen that ends it incremented, or else with -1
\* appended; then the extension as it was.
inc_rule(filename) ==
    LET name == splitext(filename)[1]
        ext == splitext(filename)[2]
        match == search(name)
    IN IF match # 0
       THEN SubSeq(name, 1, match)
            \o str(int(SubSeq(name, match + 1, Len(name))) + 1) \o ext
       ELSE name \o <<"-", "1">> \o ext

\* C17: for every file name, _inc_filename returns what the rule gives:
\* f -> f-1, f.f -> f-1.f, f-1 -> f-2, f-19.f -> f-20.f, f- -> f--1,
\* 1-f -> 1-f-1.
C17_IncFollowsRule ==
    lastOp.op = "_inc_filename" => lastOp.result = inc_rule(lastOp.filename)

(***************************************************************************)
(* Properties of the coordinator saving into a folder.                     *)
(***************************************************************************)
\* C14: once a folder archive is written, every URL the root content refers
\* to is a data URL or has a file at the path its rewritten reference gives,
\* taken from the root file's folder; also a URL the document refers to
\* more than once, and a reference that resolves to the page's own URL.
C14_LinksResolve ==
    _finished =>
        \A link \in writer.links :
            scheme(link.url) = "data" \/ link.new_url.path \in DOMAIN writer.disk

\* C16: a data URL is never touched: the folder writer's rewrite_url gives
\* it back unchanged and maps it to no filename, and fetch_url requests no
\* download for it and puts it neither into the loaded set nor into the
\* pending set.
C16_DataUntouched ==
    /\ \A link \in writer.links :
           scheme(link.url) = "data" => link.new_url = [url |-> link.url, path |-> << >>]
    /\ \A url \in DOMAIN writer.file_mapping : scheme(url) # "data"
    /\ \A url \in loaded_urls : scheme(url) # "data"
    /\ \A item \in DOMAIN downloads : scheme(item[1]) # "data"
    /\ \A p \in pending_downloads : scheme(p[1]) # "data"

\* The document referred to a data URL and to a stylesheet, and the folder
\* archive is written with the stylesheet's file in it.
C16_Witness ==
    /\ writer.class = "HTMLDirWriter"
    /\ _finished
    /\ \E link \in writer.links : scheme(link.url) = "data"
    /\ \E link \in writer.links :
           /\ link.url \in loaded_urls \ {PageUrl}
           /\ link.new_url.path \in DOMAIN writer.disk
           /\ writer.disk[link.new_url.path] = "rewritten css"

(***************************************************************************)
(* Properties of the MHTML writer.                                         *)
(***************************************************************************)
\* The parts of the message in the destination file.
Output == writer.disk[writer.dest]

IsWritten == writer.dest \in DOMAIN writer.disk

\* C18: in the written message the root document is the first part, and
\* the parts after it are in strictly ascending order of Content-Location,
\* in whatever order add_file was called.
C18_RootFirstThenSorted ==
    IsWritten =>
        /\ Output[1].Content_Location = writer.content_location
        /\ Output[1].payload = writer.root_content
        /\ \A k \in 2..(Len(Output) - 1) :
               index(Output[k].Content_Location) < index(Output[k + 1].Content_Location)

\* Three files were added in descending order of their locations, and the
\* message was written.
C18_Witness ==
    /\ IsWritten
    /\ Len(Output) = 4
    /\ lastOp.order = <<"http://h/c", "http://h/b", "http://h/a">>

\* The parts after the root that write() emits when it is called now.
Emitted ==
    LET msg == MHTMLWriter_write(writer).writer.disk[writer.dest]
    IN [k \in 1..(Len(msg) - 1) |-> msg[k + 1]]

\* The locations whose last call was add_file.
Standing == {l \in Assets : lastOp.last[l].op = "add_file"}

\* C19: after any add_file and remove_file calls, the parts write() emits
\* after the root are the locations whose last call was add_file, each
\* once, with the content and the content type of that call; a location
\* removed and not added again is not among them.
C19_LastWriteWins ==
    /\ {Emitted[k].Content_Location : k \in DOMAIN Emitted} = Standing
    /\ Len(Emitted) = Cardinality(Standing)
    /\ \A k \in DOMAIN Emitted :
           LET call == lastOp.last[Emitted[k].Content_Location]
           IN /\ Emitted[k].payload = call.content
              /\ Emitted[k].Content_Type =
                     IF call.content_type = "" THEN None ELSE call.content_type

\* A file was written into a message and then replaced by another add_file
\* for its location, and a second location was removed.
C19_Witness ==
    /\ IsWritten
    /\ \E k \in DOMAIN Emitted : \E j \in 2..Len(Output) :
           /\ Output[j].Content_Location = Emitted[k].Content_Location
           /\ Output[j].payload # Emitted[k].payload
    /\ \E l \in Assets : lastOp.last[l].op = "remove_file"

\* The root part that write() emits when it is called now.
EmittedRoot == MHTMLWriter_write(writer).writer.disk[writer.dest][1]

\* C20: the transfer encoding of a part follows from its content type
\* alone: the root part is quoted-printable whatever its type; a file added
\* with a type that starts with text/ is quoted-printable, and every other
\* file is base64, also a file added with no content type or an empty one,
\* whose part has no Content-Type header.
C20_EncodingByType ==
    /\ EmittedRoot.Content_Transfer_Encoding = E_QUOPRI
    /\ \A k \in DOMAIN Emitted :
           LET call == lastOp.last[Emitted[k].Content_Location]
           IN /\ call.content_type = "text/css" =>
                     Emitted[k].Content_Transfer_Encoding = E_QUOPRI
              /\ call.content_type = "image/png" =>
                     Emitted[k].Content_Transfer_Encoding = E_BASE64
              /\ call.content_type \in {None, ""} =>
                     /\ Emitted[k].Content_Transfer_Encoding = E_BASE64
                     /\ Emitted[k].Content_Type = None

\* A message with a root that is not text, a stylesheet, an error
\* placeholder and a file with an empty content type.
C20_Witness ==
    /\ IsWritten
    /\ Output = MHTMLWriter_write(writer).writer.disk[writer.dest]
    /\ writer.content_type = "image/png"
    /\ {lastOp.last[l].content_type : l \in Standing} = {"text/css", None, ""}

(***************************************************************************)
(* Properties of the writers and the encoders, continued.                  *)
(***************************************************************************)
\* dest is on the disk: write() was called on this writer before.
WasWritten == writer.dest \in DOMAIN writer.disk

\* C21: write() called again on a writer that was written before fails with
\* a usage error and leaves dest as the first call emitted it.
C21_SecondWriteFails ==
    WasWritten =>
        /\ HTMLDirWriter_write(writer).exc # "none"
        /\ HTMLDirWriter_write(writer).writer.disk = writer.disk

\* The writer was built with a header value that ASCII cannot encode.
NonAsciiRoot == ~isascii(writer.content_location) \/ ~isascii(writer.content_type)

\* C22: an MHTML writer built with a content_location or content_type
\* outside ASCII exists, takes every add_file and every remove_file of a
\* file it holds without an error, and raises the encoding error in write().
C22_EncodingErrorAtWrite ==
    NonAsciiRoot =>
        /\ writer.class = "MHTMLWriter"
        /\ \A location \in Assets : \A f \in MhtFiles :
               MHTMLWriter_add_file(writer, location, f.content, f.content_type).exc = "none"
        /\ \A location \in DOMAIN writer.files :
               MHTMLWriter_remove_file(writer, location).exc = "none"
        /\ MHTMLWriter_write(writer).exc = "UnicodeEncodeError"

\* Such a writer took files, gave one up again, and write() was called.
C22_Witness ==
    /\ NonAsciiRoot
    /\ writer.files # << >>
    /\ \E l \in Assets : lastOp.last[l].op = "remove_file"
    /\ writer.dest \in DOMAIN writer.disk
    /\ writer.disk[writer.dest] = << >>

\* The lines _rn_quopri returned, and each of them without its soft break.
Lines == lastOp.result

Body(k) == IF k < Len(Lines) THEN SubSeq(Lines[k], 1, Len(Lines[k]) - 1) ELSE Lines[k]

\* C24: in what _rn_quopri returns every line but the last ends with the
\* soft break =, no line ends inside an =HH escape, and the lines without
\* their soft breaks are the bytes' literals and escapes in order: an escape
\* the line had no room for stands whole at the start of the next line.
C24_EscapesWhole ==
    lastOp.op = "_rn_quopri" =>
        /\ \A k \in 1..(Len(Lines) - 1) :
               Lines[k] # << >> /\ Lines[k][Len(Lines[k])] = "="
        /\ \A k \in 1..Len(Lines) : \A i \in 1..Len(Body(k)) :
               Body(k)[i] = "=" => i + 2 <= Len(Body(k))
        /\ Flat([k \in 1..Len(Lines) |-> Body(k)])
               = Flat([i \in 1..Len(lastOp.data) |-> quoted(lastOp.data[i])])

\* A line was closed early, the escape it had no room for starts the next.
C24_Witness ==
    /\ lastOp.op = "_rn_quopri"
    /\ Len(Lines) >= 2
    /\ Len(Lines[1]) < maxlen
    /\ Lines[2] # << >> /\ Lines[2][1] = "="

\* C23: no line of the MHTML file written is longer than 76 bytes, the
\* header lines (with the boundary, with a long Content-Location) and the
\* lines of a quoted-printable or base64 payload alike.
C23_LinesFit ==
    lastOp.op = "write_to" =>
        \A k \in 1..Len(lastOp.result) : Len(lastOp.result[k]) <= maxlen

\* The urls the scanner returned.
Found == lastOp.result.urls

\* C25: the scanner returns the urls in the order of the places where they
\* stand in the text, whatever forms the text mixes.
C25_SourceOrder ==
    lastOp.op = "_get_css_imports_regex" =>
        \A j, k \in 1..Len(Found) : j < k => Found[j].start < Found[k].start

\* The places of the text that the k-th url found stands on.
Capture(k) == Found[k].start..(Found[k].start + Len(Found[k].url) - 1)

\* C26: with a callback, every url found stands in the text given, the text
\* returned holds the callback's result in its place, no place is replaced
\* for two urls, and every symbol outside these places is the one given.
\* (The callback keeps the length, so the places are the same in both.)
C26_RewrittenOnce ==
    (lastOp.op = "_get_css_imports_regex" /\ lastOp.callback # None) =>
        /\ Len(lastOp.result.data) = Len(lastOp.data)
        /\ \A k \in 1..Len(Found) :
               /\ \A i \in Capture(k) : lastOp.data[i] = Found[k].url[i - Found[k].start + 1]
               /\ \A i \in Capture(k) :
                      lastOp.result.data[i] = callback(Found[k].url)[i - Found[k].start + 1]
        /\ \A j, k \in 1..Len(Found) : j # k => Capture(j) \cap Capture(k) = {}
        /\ \A i \in 1..Len(lastOp.data) :
               (\A k \in 1..Len(Found) : i \notin Capture(k))
                   => lastOp.result.data[i] = lastOp.data[i]

\* No coordinator was built and the files are those the command found.
NothingStarted ==
    /\ ~_used /\ writer.id = 0 /\ loaded_urls = {} /\ downloads = << >>
    /\ \A p \in DOMAIN writer.disk : writer.disk[p] = Old

NothingStartedAfter ==
    /\ ~_used' /\ writer'.id = 0 /\ loaded_urls' = {} /\ downloads' = << >>
    /\ writer'.disk = writer.disk

\* One coordinator was built and run, at the signal given.
StartedAfter(signal) ==
    /\ _used' /\ writer'.id = 1
    /\ lastOp'.op = "run" /\ lastOp'.signal = signal

WroteNow == Len(writer'.writes) = Len(writer.writes) + 1

\* C28: "Page saved as <dest>" is shown once at most for a coordinator, and
\* only by a handler whose call of write() returned without an error: a
\* handler in which write() raised shows nothing.
C28_SavedAfterWrite ==
    [][/\ Len(info') <= 1
       /\ info' # info => /\ info = << >>
                          /\ info' = <<(<<"Page saved as ", dest>>)>>
                          /\ WroteNow /\ lastOp'.exc = "none"
       /\ (WroteNow /\ lastOp'.exc # "none") => info' = info
       /\ (WroteNow /\ lastOp'.exc = "none") => Len(info') = 1]_vars

\* write() raised in the handler that ran last and no message was shown.
C28_Witness ==
    /\ lastOp.exc = "UnicodeEncodeError" /\ Len(writer.writes) = 1
    /\ _finished /\ info = << >>

\* write() returned and the message was shown.
C28_WitnessSaved ==
    /\ lastOp.exc = "none" /\ Len(writer.writes) = 1 /\ Len(info) = 1

Closed(item) == downloads[item].fileobj.closed

\* C29: the buffers of the downloads.  A close() of the download manager
\* leaves a buffer open, so a handler never finds its buffer closed; the
\* buffer of a download is closed exactly when finished() or error() has
\* taken its pair out of the pending set; once the file is finished every
\* buffer is closed; and no handler reads a closed buffer.
C29_BufferDiscipline ==
    /\ \A item \in DOMAIN downloads :
           Closed(item) <=> <<item[1], item>> \notin pending_downloads
    /\ _finished => \A item \in DOMAIN downloads : Closed(item)
    /\ lastOp.exc # ClosedFile

\* The manager has called close() on the buffer of a pending download,
\* which is still open, after another download was handled and its buffer
\* closed.
C29_Witness ==
    /\ lastOp.op = "close"
    /\ <<lastOp.item[1], lastOp.item>> \in pending_downloads
    /\ ~Closed(lastOp.item)
    /\ \E item \in DOMAIN downloads : Closed(item)

\* The file is finished and the buffers of its downloads are closed.
C29_WitnessFinished ==
    /\ lastOp.op = "finished" /\ lastOp.exc = "none" /\ _finished
    /\ downloads # << >> /\ \A item \in DOMAIN downloads : Closed(item)

\* add_file was called for the URL: the MHTML writer holds a file under it,
\* the folder writer has written the file the URL is mapped to.
Registered(url) ==
    IF writer.class = "HTMLDirWriter"
    THEN /\ url \in DOMAIN writer.file_mapping
         /\ join(writer.folder_path, writer.file_mapping[url]) \in DOMAIN writer.disk
    ELSE url \in DOMAIN writer.files

\* C30: every URL of the pending set is in loaded_urls, is in the pending
\* set with one handle only, and was not registered with add_file yet.
C30_PendingInvariant ==
    \A p \in pending_downloads :
        /\ p[1] \in loaded_urls
        /\ \A q \in pending_downloads : q[1] = p[1] => q = p
        /\ ~Registered(p[1])

\* Two downloads are pending while a third was registered by its handler.
C30_Witness ==
    /\ Cardinality(pending_downloads) >= 2
    /\ \E item \in DOMAIN downloads : Registered(item[1])
    /\ lastOp.op \in {"finished", "error"}

(***************************************************************************)
(* Properties of the coordinator, continued.                               *)
(***************************************************************************)
\* C31: the page's URL is in loaded_urls from construction on and is never
\* requested from the download manager, whatever refers to it; loaded_urls
\* only grows.
C31_PageNeverFetched ==
    /\ [](/\ PageUrl \in loaded_urls
          /\ \A item \in DOMAIN downloads : item[1] # PageUrl)
    /\ [][loaded_urls \subseteq loaded_urls']_vars

\* The document refers to its own URL and other assets were requested.
C31_Witness ==
    /\ \E l \in writer.links : l.url = PageUrl
    /\ downloads # << >>
    /\ PageUrl \in loaded_urls

\* The handler that ran last was finished() for a stylesheet (Content-Type
\* among those given) that was the only pending download and referred to a
\* URL that is no data: URL and was not loaded.
LastStylesheet(types) ==
    /\ "mime" \in DOMAIN lastOp' /\ lastOp'.mime \in types
    /\ pending_downloads = {<<lastOp'.item[1], lastOp'.item>>}
    /\ Fresh(Self, lastOp'.item[1], lastOp'.urls) # {}

\* C32: a stylesheet that is the last pending download and refers to a URL
\* not loaded yet does not finish the file: its references are fetched
\* before finished() tests the pending set.
C32_ImportsBeforeTest ==
    [][LastStylesheet(StyleTypes) =>
          /\ ~_finished'
          /\ \A u \in Fresh(Self, lastOp'.item[1], lastOp'.urls) :
                 \E p \in pending_downloads' : p[1] = u]_vars

\* The same for a Content-Type that is text/css and nothing more, in any
\* case of letters.
C32_ExactTypeImportsBeforeTest ==
    [][LastStylesheet({"text/css", "Text/CSS"}) =>
          /\ ~_finished'
          /\ \A u \in Fresh(Self, lastOp'.item[1], lastOp'.urls) :
                 \E p \in pending_downloads' : p[1] = u]_vars

\* C33: once the coordinator has called write(), the writer is left as it
\* is by every handler that runs later: no file is added, replaced or
\* removed, and no URL is mapped.
C33_FrozenOnceWritten ==
    [][Len(writer.writes) >= 1 => writer' = writer]_vars

\* The file was written and a finished signal was delivered afterwards.
C33_Witness ==
    /\ Len(writer.writes) = 1
    /\ lastOp.op = "finished" /\ lastOp.exc = "KeyError"
    /\ writer.files # NoFiles

(***************************************************************************)
(* Properties of the folder writer, continued.                             *)
(***************************************************************************)
\* The mapping after a call holds every entry of the mapping before it.
KeepsMapping(out) ==
    \A u \in DOMAIN writer.file_mapping :
        /\ u \in DOMAIN out.writer.file_mapping
        /\ out.writer.file_mapping[u] = writer.file_mapping[u]

\* The absolute URL rewrite_url looks up.
Target(url, base) ==
    IF base # None THEN resolved(base, url) ELSE resolved(writer.content_location, url)

\* C34: a filename allocated for a URL stays: whatever is called next
\* (rewrite_url, add_file, remove_file, write), every entry of file_mapping
\* is kept as it is, and rewrite_url for a URL that is mapped adds nothing.
C34_MappingImmutable ==
    /\ \A url \in DirRefs : \A base \in Bases :
           LET out == HTMLDirWriter_rewrite_url(writer, url, base)
           IN /\ KeepsMapping(out)
              /\ (scheme(url) # "data" /\ Target(url, base) \in DOMAIN writer.file_mapping)
                     => out.writer.file_mapping = writer.file_mapping
    /\ \A location \in DirUrls :
           /\ HTMLDirWriter_add_file(writer, location, "bytes").writer.file_mapping
                  = writer.file_mapping
           /\ HTMLDirWriter_remove_file(writer, location).writer.file_mapping
                  = writer.file_mapping
    /\ HTMLDirWriter_write(writer).writer.file_mapping = writer.file_mapping

\* Several URLs are mapped, two of them to names that collided, and
\* rewrite_url was called again.
C34_Witness ==
    /\ lastOp.op = "rewrite_url"
    /\ Cardinality(DOMAIN writer.file_mapping) >= 3
    /\ \E u \in DOMAIN writer.file_mapping : writer.file_mapping[u] # fileName(u)

\* C35: the bytes registered for a stylesheet are the bytes downloaded.
C35_OriginalBytes ==
    lastOp.op = "finished" => lastOp.content = lastOp.bytes

\* The same for finished() of misc/mhtml.py alone.
C35_MiscOriginalBytes ==
    (lastOp.op = "finished" /\ lastOp.module = "misc/mhtml.py")
        => lastOp.content = lastOp.bytes

\* The same for finished() of pageloader/loader.py on valid UTF-8.
C35_ValidOriginalBytes ==
    (lastOp.op = "finished" /\ encode(decode_ignore(lastOp.bytes)) = lastOp.bytes)
        => lastOp.content = lastOp.bytes

\* C36: finished() for a pair that is no longer pending is ignored like a
\* late error(): it raises nothing and leaves the coordinator and the
\* writer as they are.
C36_LateFinishedIgnored ==
    [][(lastOp'.op = "finished" /\ Pair(lastOp') \notin pending_downloads)
          => (lastOp'.exc = "none" /\ UNCHANGED Coordinator)]_vars

\* What does hold: the late finished() raises KeyError and changes nothing.
C36_LateFinishedRaises ==
    [][(lastOp'.op = "finished" /\ Pair(lastOp') \notin pending_downloads)
          => (lastOp'.exc = "KeyError" /\ UNCHANGED Coordinator)]_vars

\* C37: add_file is called for URLs that went through rewrite_url only:
\* every URL requested from the download manager is mapped by the folder
\* writer from its request on, so add_file for a pending URL, on the finish
\* path and on the error path, finds its filename, and no handler ends with
\* the KeyError of a missing entry.
C37_AddedAfterRewrite ==
    /\ \A item \in DOMAIN downloads : item[1] \in DOMAIN writer.file_mapping
    /\ \A p \in pending_downloads :
           HTMLDirWriter_add_file(writer, p[1], "bytes").exc = "none"
    /\ lastOp.exc = "KeyError"
           => (lastOp.op = "finished" /\ Pair(lastOp) \notin pending_downloads)
    /\ lastOp.op = "error" => lastOp.exc = "none"

\* A stylesheet's reference was fetched from finished() and then failed:
\* the placeholder was written under the name rewrite_url gave the URL.
C37_Witness ==
    /\ lastOp.op = "error" /\ lastOp.exc = "none"
    /\ ~downloads[lastOp.item].dom_pass
    /\ join(writer.folder_path, writer.file_mapping[lastOp.item[1]]) \in DOMAIN writer.disk

\* C38: the loop that allocates a filename ends, whatever filenames are
\* allocated and whatever the candidate, with a filename that is not
\* allocated (the one new_name gives).
C38_AllocationTerminates ==
    /\ <>(lastOp.op = "allocated")
    /\ [](lastOp.op = "allocated" =>
            /\ lastOp.new_filename \notin lastOp.values
            /\ lastOp.new_filename = new_name(lastOp.values, lastOp.candidate))

\* The loop ended after it turned MaxChain times.
C38_Witness ==
    /\ lastOp.op = "allocated"
    /\ lastOp.new_filename = inc_times(lastOp.candidate, MaxChain)

\* write() was called once and raised: the flag is set and no message was
\* shown.
WriteRaised == _finished /\ Len(writer.writes) = 1 /\ info = << >>

\* C39: when write() raises in finish_file, the handler that called it ends
\* with the writer's error and with _finished set; afterwards the flag
\* stays set and no handler calls write() again.
C39_FailedWriteIsFinal ==
    [][/\ (WroteNow /\ lastOp'.exc # "none")
            => (lastOp'.exc = "UnicodeEncodeError" /\ _finished' /\ ~_finished)
       /\ WriteRaised => (WriteRaised' /\ writer'.writes = writer.writes)]_vars

\* After write() had raised, a signal was delivered and handled without a
\* second write().
C39_Witness ==
    /\ WriteRaised
    /\ lastOp.op \in {"finished", "error"}
    /\ lastOp.exc # "UnicodeEncodeError"

(***************************************************************************)
(* The coordinator when every URL has one outcome: what its download       *)
(* answers, or that it fails, is the same whenever the answer arrives.     *)
(* http://h/a is a stylesheet that imports http://h/b, http://h/b is an    *)
(* image, every other URL fails.                                           *)
(***************************************************************************)
Failure == [mime |-> "failure", urls |-> << >>]

Outcome(url) ==
    CASE url = "http://h/a" -> [mime |-> "Text/CSS", urls |-> <<"http://h/b">>]
      [] url = "http://h/b" -> [mime |-> "image/png", urls |-> << >>]
      [] OTHER -> Failure

\* The URLs whose download may be done when get() returns.
Succeeds(urls) == {u \in urls : Outcome(u) # Failure}

\* collect_zombies when the done downloads hold their URL's outcome.
RECURSIVE collect_fixed(_, _, _)
collect_fixed(s, items, instant) ==
    IF items = {} THEN {s}
    ELSE UNION {collect_fixed(finished(s, p[1], p[2], Outcome(p[1]), instant),
                              items \ {p}, instant)
                : p \in items}

run_fixed(s, page, instant) ==
    IF s._used
    THEN {[s EXCEPT !.exc = "ValueError"]}
    ELSE LET s1 == writer_factory([s EXCEPT !._used = TRUE])
             s2 == fetch_elements(s1, page.elements, instant)
             s3 == css_imports(s2, PageUrl, page.styles, instant, TRUE)
             s4 == css_imports(s3, PageUrl, page.inline, instant, TRUE)
             s5 == [s4 EXCEPT !.writer.root_content = "document"]
         IN {IF s6.pending_downloads = {} /\ ~s6._finished
             THEN finish_file(s6) ELSE s6 : s6 \in collect_fixed(s5, zombies(s5), instant)}

FixedRun ==
    \E page \in (IF _used THEN {NoPage} ELSE Pages) :
        \E instant \in SUBSET Succeeds(Assets) :
            \E s \in run_fixed(Self, page, instant) :
                Becomes(s, [NoOp EXCEPT !.op = "run"])

\* The download manager emits finished for a download that succeeds, error
\* or cancelled for one that fails.
FixedDispatch(signal, item) ==
    LET url == item[1]
        handler == downloads[item][signal]
        op == [NoOp EXCEPT !.op = handler, !.signal = signal, !.item = item]
    IN \E me \in {[Self EXCEPT !.signal = signal]} :
           \/ /\ handler = "finished"
              /\ \E instant \in SUBSET Succeeds(Fresh(me, url, Outcome(url).urls)) :
                     \E s \in {finished(me, url, item, Outcome(url), instant)} :
                         Becomes(s, op)
           \/ /\ handler = "error"
              /\ \E s \in {error(me, url, item)} : Becomes(s, op)

FixedFinished ==
    \E item \in DOMAIN downloads :
        Outcome(item[1]) # Failure /\ FixedDispatch("finished", item)

FixedError ==
    \E item \in DOMAIN downloads :
        Outcome(item[1]) = Failure /\ FixedDispatch("error", item)

FixedCancelled ==
    \E item \in DOMAIN downloads :
        Outcome(item[1]) = Failure /\ FixedDispatch("cancelled", item)

FixedNext == FixedRun \/ FixedFinished \/ FixedError \/ FixedCancelled

FixedSpec == Init /\ [][FixedNext]_vars

\* The URLs the DOM pass requested: they are the page's alone.
DomUrls == {item[1] : item \in {i \in DOMAIN downloads : downloads[i].dom_pass}}

\* The URLs reached from urls through the imports of the stylesheets.
RECURSIVE Reached(_)
Reached(urls) ==
    LET imports == UNION {{resolved(u, r) : r \in Range(Outcome(u).urls)}
                          : u \in {v \in urls : lower(Outcome(v).mime) = "text/css"}}
        more == urls \cup {u \in imports : scheme(u) # "data" /\ u # PageUrl}
    IN IF more = urls THEN urls ELSE Reached(more)

\* The entry the outcome of a URL gives.
Entry(url) ==
    LET out == Outcome(url)
        content_type == IF out = Failure THEN None ELSE out.mime
    IN [content |-> IF out = Failure THEN EmptyBytes
                    ELSE IF lower(out.mime) = "text/css" THEN "rewritten css"
                    ELSE "bytes",
        content_type |-> content_type,
        transfer_encoding |->
            IF content_type # None /\ startswith_text(content_type)
            THEN E_QUOPRI ELSE E_BASE64]

====
